---- MODULE Spec2Model ----
(***************************************************************************)
(* Omni federation server (src/unnamed/part_001, the create() closure).    *)
(*                                                                         *)
(* One macrotask of the event loop (an API call of the hosting             *)
(* application, a socket "open" callback, the frames of one received       *)
(* chunk) is one action.  The in-memory Orbit source resolves its queries  *)
(* and updates in promise microtasks, so every continuation after an       *)
(* `await database...` runs before the next socket callback.  Reads that   *)
(* are issued through the store's request queue (`database.query`) by      *)
(* handlers started in the same macrotask are served before any update     *)
(* those handlers issue later: such reads see the store as it was when     *)
(* the macrotask began (parameter db of the operators below).              *)
(***************************************************************************)
EXTENDS Integers, Sequences, FiniteSets, TLC

VARIABLES
    started,            \* wss != null (start() has run and stop() has not)
    users,              \* database records of type "user", per server
    channels,           \* database records of type "channel", per server
    messages,           \* database records of type "message", per server
    peers,              \* database records of type "peer" other than this_server
    online_users,       \* the presence object: ids mapped to true
    peer_connections,   \* peer id -> socket (0: no entry)
    outgoing,           \* pending_pair_requests.outgoing (an array)
    incoming,           \* pending_pair_requests.incoming (keyed by peer id)
    conns,              \* the WebSocket connections, both ends of each
    idCtr,              \* how many uuidv4() values each server has drawn
    now,                \* Date.now()
    ev,                 \* event_bus.emit calls of the last step, per server
    ret                 \* the call of the public API made in the last step, if any

vars == <<started, users, channels, messages, peers, online_users,
          peer_connections, outgoing, incoming, conns, idCtr, now, ev, ret>>

----------------------------------------------------------------------------
(* Bounds of the model *)

\* uuidv4() values a server may draw
MaxIds == 3
\* uuidv4() values a server may draw where every call of the API is made
LocalIds == 2
\* frames that may wait in one direction of a connection
MaxQueue == 2
\* WebSocket connections opened in one behaviour
MaxConns == 2
\* largest value of Date.now()
MaxTime == 1
\* frames of one direction that one received chunk may carry
MaxChunk == 2

\* the two servers of the test configurations, and the servers of a mesh
Pair == {"A", "B"}
Mesh == {"A", "B", "C"}

\* the servers of the federation at hand
Servers == DOMAIN started

\* config.server_port of each server (testconf1.json, testconf2.json)
PortOf == [A |-> 7777, B |-> 7778, C |-> 7779]

\* start(): the address every server records for itself
LOOPBACK == "127.0.0.1"
\* socket._socket.remoteAddress of a loopback client on a dual-stack listener
MAPPED == "::ffff:127.0.0.1"

\* ip6addr.parse(ip).toString({ format: "v4" })
ToV4(ip) == IF ip = MAPPED THEN LOOPBACK ELSE ip

\* the k-th uuidv4() of server s
Uuid(s, k) == <<s, k>>
NoId == <<"", 0>>

\* return values that are not ids
Null == <<"null", 0>>
True == <<"true", 0>>
False == <<"false", 0>>
Undefined == <<"undefined", 0>>
\* the call ended in an exception (for an async function: a rejected promise)
Threw == <<"throw", 0>>

----------------------------------------------------------------------------
(* Records *)

Event(type, id, name, ts, peer, content, user, chan) ==
    [type |-> type, id |-> id, name |-> name, ts |-> ts, peer |-> peer,
     content |-> content, user |-> user, chan |-> chan]

UserEvent(type, u) == Event(type, u.id, u.username, 0, u.peer, "", NoId, NoId)
IdEvent(type, id) == Event(type, id, "", 0, "", "", NoId, NoId)
ChannelEvent(type, c) == Event(type, c.id, c.name, c.timestamp, c.peer, "", NoId, NoId)
MessageEvent(type, m) == Event(type, m.id, "", m.timestamp, "", m.content, m.user, m.channel)
PeerEvent(type, pid) == Event(type, NoId, pid, 0, pid, "", NoId, NoId)

\* a JSON frame; fields a type does not carry are left at their defaults
Frame(type, id, name, ts, user, chan, content, sender, port) ==
    [type |-> type, id |-> id, name |-> name, ts |-> ts, user |-> user,
     chan |-> chan, content |-> content, sender |-> sender, port |-> port]

IdFrame(type, id) == Frame(type, id, "", 0, NoId, NoId, "", "", 0)
CreateUserFrame(u) == Frame("create_user", u.id, u.username, 0, NoId, NoId, "", "", 0)
\* a faulty frame: the timestamp is left out
ChannelCreateUntimed(c) == Frame("channel_create", c.id, c.name, 0, NoId, NoId, "", "", 0)
ChannelCreateFrame(c) == Frame("channel_create", c.id, c.name, c.timestamp, NoId, NoId, "", "", 0)
SendMessageFrame(m) == Frame("send_message", NoId, "", m.timestamp, m.user, m.channel, m.content, "", 0)
PairFrame(type, s) == Frame(type, NoId, s, 0, NoId, NoId, "", s, PortOf[s])
BareFrame(type) == Frame(type, NoId, "", 0, NoId, NoId, "", "", 0)

\* what an operation hands back: the store it leaves, the events it emitted,
\* the frames it sent (to: "" for every peer connection, else one peer id)
\* and its return value
Result(st, e, out, val) == [st |-> st, ev |-> e, out |-> out, val |-> val]

ToAll(f) == [to |-> "", frame |-> f]
ToPeer(p, f) == [to |-> p, frame |-> f]

\* the part of a server's state the entity operations work on
Store(s) ==
    [users |-> users[s], channels |-> channels[s], messages |-> messages[s],
     online |-> online_users[s], idc |-> idCtr[s]]

----------------------------------------------------------------------------
(* Queries *)

\* get_user / get_channel / get_message: the set holds the record, {} is null
get_user(db, id) == {u \in db.users : u.id = id}
get_channel(db, id) == {c \in db.channels : c.id = id}
get_message(db, id) == {m \in db.messages : m.id = id}

\* a faulty lookup: only the administrators are compared by name
find_admin_by_username(db, username) == {u \in db.users : u.username = username /\ u.admin}
find_user_by_username(db, username) == {u \in db.users : u.username = username}
\* a faulty lookup: private channels are left out
find_public_channel_by_name(db, name) == {c \in db.channels : c.name = name /\ ~c.is_private}
find_channel_by_name(db, name) == {c \in db.channels : c.name = name}

The(S) == CHOOSE x \in S : TRUE

\* the online ids whose `await get_user(user_id)` yields null in the loops of
\* the get_online_* queries
Missing(st) == {id \in st.online : get_user(st, id) = {}}

OnlineUsers(st) == {u \in st.users : u.id \in st.online}

\* a query's outcome: the users it returns, or that it threw
Listed(list) == [threw |-> FALSE, list |-> list]
QueryThrew == [threw |-> TRUE, list |-> {}]

get_online_users(self, st, channel_id) ==
    LET channel == get_channel(st, channel_id) IN
    IF channel = {} THEN Listed({})
    ELSE IF Missing(st) # {} THEN QueryThrew
    ELSE Listed({u \in OnlineUsers(st) :
                    /\ ~(u.peer # self /\ The(channel).is_private)
                    /\ (u.admin \/ ~The(channel).admin_only)})

get_online_local_users(self, st, channel_id) ==
    LET channel == get_channel(st, channel_id) IN
    IF channel = {} THEN Listed({})
    ELSE IF Missing(st) # {} THEN QueryThrew
    ELSE Listed({u \in OnlineUsers(st) :
                    u.peer = self /\ (u.admin \/ ~The(channel).admin_only)})

get_online_remote_users(self, st, channel_id) ==
    LET channel == get_channel(st, channel_id) IN
    IF channel = {} \/ The(channel).is_private THEN Listed({})
    ELSE IF Missing(st) # {} THEN QueryThrew
    ELSE Listed({u \in OnlineUsers(st) :
                    u.peer # self /\ (u.admin \/ ~The(channel).admin_only)})

----------------------------------------------------------------------------
(* Users.  db is the store the first queued read sees, st the store now. *)

\* database.update(t => t.addRecord(r)): a record with the same id is replaced
AddRecord(set, r) == {x \in set : x.id # r.id} \cup {r}
RemoveRecord(set, id) == {x \in set : x.id # id}

\* a faulty create_user_internal: a record with the id is not looked for
create_user_internal_replacing(db, st, id, username, admin, peer_id) ==
    LET user == [id |-> id, username |-> username, admin |-> admin, peer |-> peer_id] IN
    Result([st EXCEPT !.users = AddRecord(@, user)],
           <<UserEvent("create_user", user)>>, <<>>, id)

create_user_internal(db, st, id, username, admin, peer_id) ==
    IF get_user(db, id) # {} THEN Result(st, <<>>, <<>>, Null)
    ELSE LET user == [id |-> id, username |-> username, admin |-> admin, peer |-> peer_id] IN
         Result([st EXCEPT !.users = AddRecord(@, user)],
                <<UserEvent("create_user", user)>>, <<>>, id)

create_user(self, db, st, username, admin) ==
    IF find_user_by_username(st, username) # {} THEN Result(st, <<>>, <<>>, Null)
    ELSE LET uuid == Uuid(self, st.idc + 1)
             r == create_user_internal(db, [st EXCEPT !.idc = @ + 1], uuid, username, admin, self)
         IN  IF r.val # Null
             THEN Result(r.st, r.ev, <<ToAll(CreateUserFrame(The(get_user(r.st, uuid))))>>, r.val)
             ELSE r

\* a faulty delete_user_internal: the owner is not compared
delete_any_user_internal(db, st, id, peer_id) ==
    IF get_user(db, id) = {} THEN Result(st, <<>>, <<>>, False)
    ELSE Result([st EXCEPT !.users = RemoveRecord(@, id)],
                <<IdEvent("delete_user", id)>>, <<>>, True)

delete_user_internal(db, st, id, peer_id) ==
    LET user == get_user(db, id) IN
    IF user = {} \/ The(user).peer # peer_id THEN Result(st, <<>>, <<>>, False)
    ELSE Result([st EXCEPT !.users = RemoveRecord(@, id)],
                <<IdEvent("delete_user", id)>>, <<>>, True)

delete_user(self, db, st, id) ==
    LET r == delete_user_internal(db, st, id, self) IN
    IF r.val = True
    THEN Result(r.st, r.ev, <<ToAll(IdFrame("delete_user", id))>>, True)
    ELSE r

\* a faulty login_user: the users of other servers are refused
login_local_user(self, db, st, id) ==
    LET user == get_user(db, id) IN
    IF user = {} \/ The(user).peer # self THEN Result(st, <<>>, <<>>, False)
    ELSE Result([st EXCEPT !.online = @ \cup {id}],
                <<UserEvent("user_online", The(user))>>,
                <<ToAll(IdFrame("login", id))>>, True)

login_user(self, db, st, id) ==
    LET user == get_user(db, id) IN
    IF user = {} THEN Result(st, <<>>, <<>>, False)
    ELSE Result([st EXCEPT !.online = @ \cup {id}],
                <<UserEvent("user_online", The(user))>>,
                IF The(user).peer = self THEN <<ToAll(IdFrame("login", id))>> ELSE <<>>,
                True)

\* a faulty logout_user: it returns false after it logged the user out
logout_user_returning_false(self, db, st, id) ==
    LET user == get_user(db, id) IN
    IF user = {} \/ id \notin st.online THEN Result(st, <<>>, <<>>, False)
    ELSE Result([st EXCEPT !.online = @ \ {id}],
                <<UserEvent("user_offline", The(user))>>, <<>>, False)

\* the frame logout_user sends has type "login" (part_001, line 365)
logout_user(self, db, st, id) ==
    LET user == get_user(db, id) IN
    IF user = {} \/ id \notin st.online THEN Result(st, <<>>, <<>>, False)
    ELSE Result([st EXCEPT !.online = @ \ {id}],
                <<UserEvent("user_offline", The(user))>>,
                IF The(user).peer = self THEN <<ToAll(IdFrame("login", id))>> ELSE <<>>,
                True)

----------------------------------------------------------------------------
(* Channels *)

create_channel_internal(db, st, id, name, admin_only, is_private, timestamp, peer_id) ==
    IF get_channel(db, id) # {} THEN Result(st, <<>>, <<>>, Null)
    ELSE LET channel == [id |-> id, name |-> name, admin_only |-> admin_only,
                         is_private |-> is_private, timestamp |-> timestamp,
                         peer |-> peer_id] IN
         Result([st EXCEPT !.channels = AddRecord(@, channel)],
                <<ChannelEvent("channel_create", channel)>>, <<>>, id)

create_channel(self, db, st, name, admin_only, is_private, timestamp) ==
    IF find_channel_by_name(db, name) # {} THEN Result(st, <<>>, <<>>, Null)
    ELSE LET uuid == Uuid(self, st.idc + 1)
             r == create_channel_internal(db, [st EXCEPT !.idc = @ + 1], uuid, name,
                                          admin_only, is_private, timestamp, self)
         IN  IF r.val # Null /\ ~is_private /\ ~admin_only
             THEN Result(r.st, r.ev,
                         <<ToAll(ChannelCreateFrame(The(get_channel(r.st, uuid))))>>, r.val)
             ELSE r

\* a faulty delete_channel_internal: the owner is not compared
delete_any_channel_internal(db, st, id, peer_id) ==
    IF get_channel(db, id) = {} THEN Result(st, <<>>, <<>>, False)
    ELSE Result([st EXCEPT !.channels = RemoveRecord(@, id)],
                <<IdEvent("channel_delete", id)>>, <<>>, True)

delete_channel_internal(db, st, id, peer_id) ==
    LET channel == get_channel(db, id) IN
    IF channel = {} \/ The(channel).peer # peer_id THEN Result(st, <<>>, <<>>, False)
    ELSE Result([st EXCEPT !.channels = RemoveRecord(@, id)],
                <<IdEvent("channel_delete", id)>>, <<>>, True)

delete_channel(self, db, st, id) ==
    LET channel == get_channel(db, id) IN
    IF channel = {} THEN Result(st, <<>>, <<>>, False)
    ELSE LET r == delete_channel_internal(db, st, id, self) IN
         IF r.val = True /\ ~The(channel).is_private /\ ~The(channel).admin_only
         THEN Result(r.st, r.ev, <<ToAll(IdFrame("channel_delete", id))>>, True)
         ELSE r

----------------------------------------------------------------------------
(* Messages *)

\* the peers send_message writes to: every connection when the channel is
\* this server's, else the connection of the channel's owner
MessageTargets(self, channel, f) ==
    IF channel.peer = self THEN <<ToAll(f)>> ELSE <<ToPeer(channel.peer, f)>>

send_message(self, db, st, user_id, channel_id, content, timestamp) ==
    LET user == get_user(db, user_id)
        channel == get_channel(db, channel_id)
    IN
    IF channel = {} \/ user_id \notin st.online THEN Result(st, <<>>, <<>>, Null)
    \* user is null: user.attributes / user.relationships is a TypeError
    ELSE IF user = {} THEN Result(st, <<>>, <<>>, Threw)
    ELSE IF The(channel).admin_only /\ ~The(user).admin THEN Result(st, <<>>, <<>>, Null)
    ELSE LET message == [id |-> Uuid(self, st.idc + 1), content |-> content,
                         timestamp |-> timestamp, user |-> user_id,
                         channel |-> channel_id]
             out == IF The(user).peer = self /\ ~The(channel).is_private
                    THEN MessageTargets(self, The(channel), SendMessageFrame(message))
                    ELSE <<>>
             st2 == [st EXCEPT !.idc = @ + 1, !.messages = AddRecord(@, message)]
         IN  IF get_online_local_users(self, st2, channel_id).threw
             THEN Result(st2, <<>>, out, Threw)
             ELSE Result(st2, <<MessageEvent("message", message)>>, out, message.id)

\* message_id is undefined when the frame carries none: addRecord then gives the
\* record an id of its own, and the object the event carries keeps id undefined
send_remote_message(self, db, st, user_id, channel_id, content, message_id, timestamp) ==
    LET channel == get_channel(db, channel_id) IN
    IF channel = {} \/ user_id \notin st.online THEN Result(st, <<>>, <<>>, Null)
    ELSE IF The(channel).admin_only \/ The(channel).is_private THEN Result(st, <<>>, <<>>, Null)
    ELSE LET generated == (message_id = NoId)
             message == [id |-> message_id, content |-> content, timestamp |-> timestamp,
                         user |-> user_id, channel |-> channel_id]
             stored == IF generated THEN [message EXCEPT !.id = Uuid(self, st.idc + 1)]
                       ELSE message
             st2 == [st EXCEPT !.idc = IF generated THEN @ + 1 ELSE @,
                               !.messages = AddRecord(@, stored)]
         IN  IF get_online_local_users(self, st2, channel_id).threw
             THEN Result(st2, <<>>, <<>>, Threw)
             ELSE Result(st2, <<MessageEvent("message", message)>>, <<>>, message.id)

\* the frame delete_message sends has type "message_delete" (part_001, line 887)
delete_message(self, db, st, id) ==
    LET message == get_message(db, id) IN
    IF message = {} THEN Result(st, <<>>, <<>>, Threw)
    ELSE LET channel == get_channel(db, The(message).channel)
             st2 == [st EXCEPT !.messages = RemoveRecord(@, id)]
         IN  IF channel = {} THEN Result(st2, <<>>, <<>>, Threw)
             ELSE LET out == IF /\ The(channel).peer = self
                                /\ ~The(channel).is_private
                                /\ ~The(channel).admin_only
                             THEN <<ToAll(IdFrame("message_delete", id))>>
                             ELSE <<>>
                  IN  IF get_online_local_users(self, st2, The(channel).id).threw
                      THEN Result(st2, <<>>, out, Threw)
                      ELSE Result(st2, <<MessageEvent("message_delete", The(message))>>,
                                  out, Undefined)

delete_remote_message(db, st, id, peer_id) ==
    LET message == get_message(db, id) IN
    IF message = {} THEN Result(st, <<>>, <<>>, Threw)
    ELSE LET channel == get_channel(db, The(message).channel) IN
         IF channel = {} THEN Result(st, <<>>, <<>>, Threw)
         ELSE IF \/ The(channel).peer # peer_id
                 \/ The(channel).is_private
                 \/ The(channel).admin_only
              THEN Result(st, <<>>, <<>>, Undefined)
              ELSE Result([st EXCEPT !.messages = RemoveRecord(@, id)],
                          <<IdEvent("message_delete", id)>>, <<>>, Undefined)

\* the elements of S in the order of their keys
RECURSIVE Sorted(_, _)
Sorted(S, key) ==
    IF S = {} THEN <<>>
    ELSE LET x == CHOOSE y \in S : \A z \in S : key[y] <= key[z]
         IN  <<x>> \o Sorted(S \ {x}, key)

\* the outcome of get_messages: null, or the messages in the order returned
NoMessages == [null |-> TRUE, list |-> <<>>]
Page(list) == [null |-> FALSE, list |-> list]

\* the first limit elements of list: list.slice(0, limit) for limit >= 0
Slice(list, limit) == SubSeq(list, 1, IF limit < Len(list) THEN limit ELSE Len(list))

\* the query result sorted by timestamp; Array.prototype.sort is stable, so
\* messages of one timestamp stay in the order of the store, which is the
\* order their ids were drawn in
ByTimestamp(found) ==
    Sorted(found, [m \in found |-> m.timestamp * (MaxIds + 2) + m.id[2]])

\* the older get_messages: timestamp <= cutoff, and the page is cut from the
\* query result before it is sorted
get_messages_paged_unsorted(db, channel_id, timestamp, limit) ==
    IF get_channel(db, channel_id) = {} THEN NoMessages
    ELSE LET found == {m \in db.messages : m.channel = channel_id /\ m.timestamp <= timestamp}
             stored == Sorted(found, [m \in found |-> m.id[2]])
             page == Slice(stored, limit)
         IN  Page(ByTimestamp({page[j] : j \in DOMAIN page}))

get_messages(db, channel_id, timestamp, limit) ==
    IF get_channel(db, channel_id) = {} THEN NoMessages
    ELSE LET found == {m \in db.messages : m.channel = channel_id}
             earlier == {m \in found : m.timestamp < timestamp}
         IN  Page(Slice(ByTimestamp(earlier), limit))

----------------------------------------------------------------------------
(* set_up_handlers: the replication dispatcher bound to a peer's socket *)

\* the listener's switch on data.type, for one frame from peer_id
Dispatch(self, db, st, peer_id, f) ==
    CASE f.type = "login" -> login_user(self, db, st, f.id)
      [] f.type = "logout" -> logout_user(self, db, st, f.id)
      [] f.type = "create_user" ->
            create_user_internal(db, st, f.id, f.name, FALSE, peer_id)
      [] f.type = "delete_user" -> delete_user_internal(db, st, f.id, peer_id)
      [] f.type = "channel_create" ->
            create_channel_internal(db, st, f.id, f.name, FALSE, FALSE, f.ts, peer_id)
      [] f.type = "channel_delete" -> delete_channel_internal(db, st, f.id, peer_id)
      [] f.type = "send_message" ->
            \* data.message_id: the frame has no such field
            send_remote_message(self, db, st, f.user, f.chan, f.content, NoId, f.ts)
      [] f.type = "delete_message" -> delete_remote_message(db, st, f.id, peer_id)
      [] f.type = "get_messages" ->
            Result(st, <<>>, <<ToPeer("reply", BareFrame("get_messages_success"))>>, Undefined)
      [] OTHER -> Result(st, <<>>, <<>>, Undefined)

\* the frames of one chunk, each handed to the listener before the
\* continuation of an earlier one runs: every first read sees db
RECURSIVE DispatchAll(_, _, _, _, _)
DispatchAll(self, db, st, peer_id, frames) ==
    IF frames = <<>> THEN Result(st, <<>>, <<>>, Undefined)
    ELSE LET r == Dispatch(self, db, st, peer_id, Head(frames))
             rest == DispatchAll(self, db, r.st, peer_id, Tail(frames))
         IN  Result(rest.st, r.ev \o rest.ev, r.out \o rest.out, Undefined)

----------------------------------------------------------------------------
(* Sockets *)

ServerSeq == IF "C" \in Servers THEN <<"A", "B", "C">> ELSE <<"A", "B">>

\* a connection: the client end (the server that called new WebSocket) and the
\* end the listening server was handed in its "connection" event
Conn(kind, cli, srv, peer, acc, ip, port) ==
    [kind |-> kind,         \* "pair" | "respond" | "connect": who opened it
     cli |-> cli, srv |-> srv,
     peer |-> peer,         \* the peer id its open handler closes over
     acc |-> acc,           \* respond_to_pair_request's accepted
     ip |-> ip, port |-> port,
     open |-> FALSE,
     cliBound |-> "none",   \* the client end's listener: none | once | repl
     cliPeer |-> "",        \* the peer_id of set_up_handlers at the client end
     srvWait |-> "pending", \* await_handshake_or_pair_request's promise
     srvPeer |-> "",        \* the peer_id of set_up_handlers at the server end
     cliClosed |-> FALSE, srvClosed |-> FALSE,
     toSrv |-> <<>>, toCli |-> <<>>]

\* socket.send(frame) by server `from` on socket c; nothing is queued for an
\* end that has closed
SocketSend(c, from, f) ==
    IF from = c.cli
    THEN IF c.cliClosed \/ c.srvClosed \/ ~c.open THEN c ELSE [c EXCEPT !.toSrv = Append(@, f)]
    ELSE IF c.cliClosed \/ c.srvClosed \/ ~c.open THEN c ELSE [c EXCEPT !.toCli = Append(@, f)]

\* the sockets one sent frame goes to
RECURSIVE SocketsOf(_, _, _)
SocketsOf(pc, to, order) ==
    IF order = <<>> THEN <<>>
    ELSE (IF pc[Head(order)] # 0 /\ to \in {"", Head(order)} THEN <<pc[Head(order)]>> ELSE <<>>)
         \o SocketsOf(pc, to, Tail(order))

\* a faulty loop over the sockets: it ends at the first socket that has closed
RECURSIVE SendEachUntilClosed(_, _, _, _)
SendEachUntilClosed(cs, self, socks, f) ==
    IF socks = <<>> THEN cs
    ELSE IF cs[Head(socks)].cliClosed \/ cs[Head(socks)].srvClosed THEN cs
    ELSE SendEachUntilClosed([cs EXCEPT ![Head(socks)] = SocketSend(@, self, f)],
                             self, Tail(socks), f)

RECURSIVE SendEach(_, _, _, _)
SendEach(cs, self, socks, f) ==
    IF socks = <<>> THEN cs
    ELSE SendEach([cs EXCEPT ![Head(socks)] = SocketSend(@, self, f)], self, Tail(socks), f)

\* the frames an operation sent, written to the sockets of pc (and to the
\* socket the frame answered, for a reply)
RECURSIVE SendAll(_, _, _, _, _)
SendAll(cs, self, pc, reply, out) ==
    IF out = <<>> THEN cs
    ELSE LET o == Head(out)
             socks == IF o.to = "reply" THEN <<reply>> ELSE SocketsOf(pc, o.to, ServerSeq)
         IN  SendAll(SendEach(cs, self, socks, o.frame), self, pc, reply, Tail(out))

\* the applications stop calling while MaxQueue frames wait on a socket
QueuesOK(cs) ==
    \A i \in DOMAIN cs : Len(cs[i].toSrv) <= MaxQueue /\ Len(cs[i].toCli) <= MaxQueue

----------------------------------------------------------------------------
(* The public API: the entity operations *)

Ret(op, srv, id, chan, name, f1, f2, val) ==
    [op |-> op, srv |-> srv, id |-> id, chan |-> chan, name |-> name,
     f1 |-> f1, f2 |-> f2, val |-> val]

EmitOn(s, e) == [t \in Servers |-> IF t = s THEN e ELSE <<>>]

\* server s ends a macrotask with the store, the events and the frames of r;
\* reply is the socket a reply frame goes to (0: none)
Commit(s, r, reply, cs) ==
    /\ r.st.idc <= MaxIds
    /\ users' = [users EXCEPT ![s] = r.st.users]
    /\ channels' = [channels EXCEPT ![s] = r.st.channels]
    /\ messages' = [messages EXCEPT ![s] = r.st.messages]
    /\ online_users' = [online_users EXCEPT ![s] = r.st.online]
    /\ idCtr' = [idCtr EXCEPT ![s] = r.st.idc]
    /\ ev' = EmitOn(s, r.ev)
    /\ conns' = SendAll(cs, s, peer_connections[s], reply, r.out)

\* an API call that touches only the entity store, the presence object and the
\* peer sockets
Call(s, r, rv) ==
    /\ started[s]
    /\ Commit(s, r, 0, conns)
    /\ QueuesOK(conns')
    /\ ret' = rv
    /\ UNCHANGED <<started, peers, peer_connections, outgoing, incoming, now>>

CreateUser(s, username, admin) ==
    LET r == create_user(s, Store(s), Store(s), username, admin) IN
    Call(s, r, Ret("create_user", s, NoId, NoId, username, admin, FALSE, r.val))

DeleteUser(s, id) ==
    LET r == delete_user(s, Store(s), Store(s), id) IN
    Call(s, r, Ret("delete_user", s, id, NoId, "", FALSE, FALSE, r.val))

LoginUser(s, id) ==
    LET r == login_user(s, Store(s), Store(s), id) IN
    Call(s, r, Ret("login_user", s, id, NoId, "", FALSE, FALSE, r.val))

LogoutUser(s, id) ==
    LET r == logout_user(s, Store(s), Store(s), id) IN
    Call(s, r, Ret("logout_user", s, id, NoId, "", FALSE, FALSE, r.val))

CreateChannel(s, name, admin_only, is_private) ==
    LET r == create_channel(s, Store(s), Store(s), name, admin_only, is_private, now) IN
    Call(s, r, Ret("create_channel", s, NoId, NoId, name, admin_only, is_private, r.val))

\* two calls made in the same macrotask: the second call runs to its first
\* await before the first call goes on, so both read the store db as it was
\* before either call; the second continuation works on what the first left
Together(r1, r2) == Result(r2.st, r1.ev \o r2.ev, r1.out \o r2.out, <<r1.val, r2.val>>)

CreateUsersTogether(s, username) ==
    LET db == Store(s)
        r1 == create_user(s, db, db, username, FALSE)
        \* find_user_by_username of the second call reads the cache before the
        \* addRecord of the first: its users are those of db
        r2 == create_user(s, db, [db EXCEPT !.idc = r1.st.idc], username, FALSE)
        r  == Together(r1, [r2 EXCEPT !.st.users = r1.st.users \cup @])
    IN  Call(s, r, Ret("create_user, create_user", s, NoId, NoId, username, FALSE, FALSE, r.val))

CreateChannelsTogether(s, name) ==
    LET db == Store(s)
        r1 == create_channel(s, db, db, name, FALSE, FALSE, now)
        r2 == create_channel(s, db, r1.st, name, FALSE, FALSE, now)
    IN  Call(s, Together(r1, r2),
             Ret("create_channel, create_channel", s, NoId, NoId, name, FALSE, FALSE,
                 <<r1.val, r2.val>>))

DeleteChannel(s, id) ==
    LET r == delete_channel(s, Store(s), Store(s), id) IN
    Call(s, r, Ret("delete_channel", s, NoId, id, "", FALSE, FALSE, r.val))

SendMessage(s, user_id, channel_id, content) ==
    LET r == send_message(s, Store(s), Store(s), user_id, channel_id, content, now) IN
    Call(s, r, Ret("send_message", s, user_id, channel_id, content, FALSE, FALSE, r.val))

DeleteMessage(s, id) ==
    LET r == delete_message(s, Store(s), Store(s), id) IN
    Call(s, r, Ret("delete_message", s, id, NoId, "", FALSE, FALSE, r.val))

\* a query of the public API: it reads the store and changes nothing
Query(s, rv) ==
    /\ started[s]
    /\ ret' = rv
    /\ ev' = EmitOn("", <<>>)
    /\ UNCHANGED <<started, users, channels, messages, peers, online_users,
                   peer_connections, outgoing, incoming, conns, idCtr, now>>

\* get_messages(channel_id, timestamp, limit); the cutoff and the limit are
\* kept in the id field of the call
GetMessages(s, channel_id, timestamp, limit) ==
    Query(s, Ret("get_messages", s, <<timestamp, limit>>, channel_id, "", FALSE, FALSE,
                 get_messages(Store(s), channel_id, timestamp, limit)))

GetOnlineUsers(s, channel_id) ==
    Query(s, Ret("get_online_users", s, NoId, channel_id, "", FALSE, FALSE,
                 get_online_users(s, Store(s), channel_id)))

GetOnlineLocalUsers(s, channel_id) ==
    Query(s, Ret("get_online_local_users", s, NoId, channel_id, "", FALSE, FALSE,
                 get_online_local_users(s, Store(s), channel_id)))

GetOnlineRemoteUsers(s, channel_id) ==
    Query(s, Ret("get_online_remote_users", s, NoId, channel_id, "", FALSE, FALSE,
                 get_online_remote_users(s, Store(s), channel_id)))

\* the last step was no call of the public API
NoCall == Ret("", "", NoId, NoId, "", FALSE, FALSE, Undefined)

\* Date.now() moves on
Tick ==
    /\ now < MaxTime
    /\ now' = now + 1
    /\ ev' = EmitOn("", <<>>)
    /\ ret' = NoCall
    /\ UNCHANGED <<started, users, channels, messages, peers, online_users,
                   peer_connections, outgoing, incoming, conns, idCtr>>

----------------------------------------------------------------------------
(* Peers and pairing *)

PeerRecord(id, name, address, port) ==
    [id |-> id, name |-> name, address |-> address, port |-> port]

\* the attributes of a peer record (add_peer, instantiate_server_information)
PeerAttributes == {"name", "address", "port"}

\* a faulty get_peer: the id is looked for among the attributes, as has_peer does
PeerWithAttribute(self, prs, id) ==
    "id" \in PeerAttributes /\ (id = self \/ \E p \in prs : p.id = id)

\* get_peer(id) != null; this_server is a record of type "peer" too
PeerKnown(self, prs, id) == id = self \/ \E p \in prs : p.id = id

\* has_peer filters the peer records on the attribute "id"
has_peer(self, prs, id) ==
    "id" \in PeerAttributes /\ PeerKnown(self, prs, id)

\* the server a WebSocket to ws://ip:port reaches
Listening(ip, port) ==
    {t \in Servers : started[t] /\ ToV4(ip) = LOOPBACK /\ PortOf[t] = port}

Pending(out, ip, port) == \E j \in DOMAIN out : out[j].ip = ip /\ out[j].port = port

\* a pairing call: its address and port arguments are kept in the id field
PairRet(op, s, address, port, val) == Ret(op, s, <<address, port>>, NoId, "", FALSE, FALSE, val)

SendPairRequest(s, address, port) ==
    LET ip == ToV4(address)
        refused == \/ (ip = LOOPBACK /\ port = PortOf[s])
                   \/ Pending(outgoing[s], ip, port)
    IN
    /\ started[s]
    /\ IF refused
       THEN /\ ret' = PairRet("send_pair_request", s, address, port, False)
            /\ UNCHANGED conns
       ELSE /\ Listening(ip, port) # {}
            /\ Len(conns) < MaxConns
            /\ conns' = Append(conns, Conn("pair", s, The(Listening(ip, port)), "", FALSE, ip, port))
            /\ ret' = PairRet("send_pair_request", s, address, port, True)
    /\ ev' = EmitOn(s, <<>>)
    /\ UNCHANGED <<started, users, channels, messages, peers, online_users,
                   peer_connections, outgoing, incoming, idCtr, now>>

RespondToPairRequest(s, id, accepted) ==
    LET pair_request == {r \in incoming[s] : r.id = id} IN
    /\ started[s]
    /\ IF pair_request = {}
       THEN /\ ret' = Ret("respond_to_pair_request", s, NoId, NoId, id, accepted, FALSE, False)
            /\ UNCHANGED <<conns, peers>>
       ELSE LET q == The(pair_request) IN
            /\ Listening(q.address, q.port) # {}
            /\ Len(conns) < MaxConns
            /\ peers' = [peers EXCEPT ![s] =
                            IF accepted
                            THEN AddRecord(@, PeerRecord(id, q.name, q.address, q.port))
                            ELSE @]
            /\ conns' = Append(conns, Conn("respond", s, The(Listening(q.address, q.port)),
                                           id, accepted, q.address, q.port))
            /\ ret' = Ret("respond_to_pair_request", s, NoId, NoId, id, accepted, FALSE, True)
    /\ ev' = EmitOn(s, <<>>)
    /\ UNCHANGED <<started, users, channels, messages, online_users,
                   peer_connections, outgoing, incoming, idCtr, now>>

\* the order of a for-in loop or of a query's result: the order of insertion
Rank(id) == (CHOOSE j \in DOMAIN ServerSeq : ServerSeq[j] = id[1]) * (MaxIds + 2) + id[2]

\* a faulty filter: private channels pass
NotAdminOnly(c) == ~c.admin_only

\* inform_peer: the channels a peer is told of
Visible(c) == ~c.admin_only /\ ~c.is_private

\* the frames of inform_peer
CatchUp(self, st) ==
    LET mine == {c \in st.channels : c.peer = self}
        by_time == [c \in mine |-> c.timestamp * (Len(ServerSeq) + 1) * (MaxIds + 2) + Rank(c.id)]
        local_channels == Sorted(mine, by_time)
        public == SelectSeq(local_channels, Visible)
        local == {u \in st.users : u.peer = self}
        local_users == Sorted(local, [u \in local |-> Rank(u.id)])
        online == Sorted(st.online, [id \in st.online |-> Rank(id)])
    IN  [j \in DOMAIN public |-> ToPeer("reply", ChannelCreateFrame(public[j]))]
        \o [j \in DOMAIN local_users |-> ToPeer("reply", CreateUserFrame(local_users[j]))]
        \o [j \in DOMAIN online |-> ToPeer("reply", IdFrame("login", online[j]))]

\* inform_peer(id): nothing is sent unless peer_connections[id] is set
inform_peer(self, st, pc, id) == IF pc[id] = 0 THEN <<>> ELSE CatchUp(self, st)

----------------------------------------------------------------------------
(* The listening side of a connection *)

HandshakeFrame(s) == Frame("handshake", NoId, "", 0, NoId, NoId, "", s, 0)

\* socket._socket.remoteAddress of a connection from this host
RemoteAddress == MAPPED

Awaited(og, prs, inc, e, out, settle) ==
    [outgoing |-> og, peers |-> prs, incoming |-> inc, ev |-> e, out |-> out,
     settle |-> settle]

\* a faulty match: the address is compared as the socket reports it
FoundUnconverted(og, address, port) ==
    \E j \in DOMAIN og : og[j].ip = RemoteAddress /\ og[j].port = port

\* a faulty match: any answer passes, pending request or not
FoundAlways(og, address, port) == TRUE

\* pending_pair_requests.outgoing.findIndex(...) != -1
Found(og, address, port) ==
    \E j \in DOMAIN og : og[j].ip = address /\ og[j].port = port

\* a faulty listener: a first frame of any other type is left unanswered
await_ignoring_unexpected(self, og, prs, inc, f) ==
    LET address == ToV4(RemoteAddress)
        found == Found(og, address, f.port)
        filtered == SelectSeq(og, LAMBDA r : r.ip # address /\ r.port # f.port)
    IN
    CASE f.type = "pair_accept" /\ found ->
            Awaited(filtered, AddRecord(prs, PeerRecord(f.sender, f.name, address, f.port)),
                    inc, <<PeerEvent("pair_accept", f.sender)>>, <<>>, "resolve")
      [] f.type = "pair_reject" /\ found ->
            Awaited(filtered, prs, inc, <<PeerEvent("pair_reject", f.sender)>>, <<>>, "reject")
      [] f.type = "pair_request" ->
            IF has_peer(self, prs, f.sender)
            THEN Awaited(og, prs, inc, <<>>, <<ToPeer("reply", BareFrame("pair_reject"))>>, "")
            ELSE Awaited(og, prs,
                         AddRecord(inc, PeerRecord(f.sender, f.name, address, f.port)),
                         <<PeerEvent("pair_request", f.sender)>>, <<>>, "reject")
      [] f.type = "handshake" -> Awaited(og, prs, inc, <<>>, <<>>, "resolve")
      [] OTHER -> Awaited(og, prs, inc, <<>>, <<>>, "")

\* the listener of await_handshake_or_pair_request for one frame; settle is
\* what it does to the promise: "resolve", "reject" or "" (nothing)
await_handshake_or_pair_request(self, og, prs, inc, f) ==
    LET address == ToV4(RemoteAddress)
        found == Found(og, address, f.port)
        filtered == SelectSeq(og, LAMBDA r : r.ip # address /\ r.port # f.port)
    IN
    CASE f.type = "handshake" -> Awaited(og, prs, inc, <<>>, <<>>, "resolve")
      [] f.type = "pair_accept" /\ found ->
            Awaited(filtered, AddRecord(prs, PeerRecord(f.sender, f.name, address, f.port)),
                    inc, <<PeerEvent("pair_accept", f.sender)>>, <<>>, "resolve")
      [] f.type = "pair_reject" /\ found ->
            Awaited(filtered, prs, inc, <<PeerEvent("pair_reject", f.sender)>>, <<>>, "reject")
      [] f.type = "pair_request" ->
            IF has_peer(self, prs, f.sender)
            THEN Awaited(og, prs, inc, <<>>, <<ToPeer("reply", BareFrame("pair_reject"))>>, "")
            ELSE Awaited(og, prs,
                         AddRecord(inc, PeerRecord(f.sender, f.name, address, f.port)),
                         <<PeerEvent("pair_request", f.sender)>>, <<>>, "reject")
      [] OTHER -> Awaited(og, prs, inc, <<>>, <<>>, "reject")

\* the same listener for the frames of a chunk, one after the other
RECURSIVE AwaitAll(_, _, _, _, _)
AwaitAll(self, og, prs, inc, frames) ==
    IF frames = <<>> THEN Awaited(og, prs, inc, <<>>, <<>>, "")
    ELSE LET a == await_handshake_or_pair_request(self, og, prs, inc, Head(frames))
             rest == AwaitAll(self, a.outgoing, a.peers, a.incoming, Tail(frames))
         IN  Awaited(rest.outgoing, rest.peers, rest.incoming, a.ev \o rest.ev,
                     a.out \o rest.out, IF a.settle # "" THEN a.settle ELSE rest.settle)

----------------------------------------------------------------------------
(* Connections *)

Quiet == EmitOn("", <<>>)

\* the "open" handler of the client end, and the "connection" handler of the
\* listening server, which starts to wait for the first frame
Open(i) ==
    LET c == conns[i]
        first == CASE c.kind = "pair" -> PairFrame("pair_request", c.cli)
                   [] c.kind = "respond" ->
                        PairFrame(IF c.acc THEN "pair_accept" ELSE "pair_reject", c.cli)
                   [] OTHER -> HandshakeFrame(c.cli)
    IN
    /\ ~c.open
    /\ started[c.srv]
    /\ conns' = [conns EXCEPT ![i] =
                    [c EXCEPT !.open = TRUE,
                              !.toSrv = <<first>>,
                              !.cliBound = IF c.kind = "pair" THEN "none" ELSE "once",
                              !.cliClosed = (c.kind = "pair")]]
    /\ outgoing' = [outgoing EXCEPT ![c.cli] =
                        IF c.kind = "pair" THEN Append(@, [ip |-> c.ip, port |-> c.port])
                        ELSE @]
    /\ ev' = Quiet
    /\ ret' = NoCall
    /\ UNCHANGED <<started, users, channels, messages, peers, online_users,
                   peer_connections, incoming, idCtr, now>>

\* peer_online(peer_id, socket) on connection i
peer_online(self, prs, pc, peer_id, i) ==
    IF PeerKnown(self, prs, peer_id)
    THEN [pc |-> [pc EXCEPT ![peer_id] = i], ev |-> <<PeerEvent("peer_online", peer_id)>>]
    ELSE [pc |-> pc, ev |-> <<>>]

\* the listening end takes the first k frames that wait for it
ServerRecv(i, k) ==
    LET c == conns[i]
        s == c.srv
        frames == SubSeq(c.toSrv, 1, k)
        taken == [c EXCEPT !.toSrv = SubSeq(@, k + 1, Len(@))]
        a == AwaitAll(s, outgoing[s], peers[s], incoming[s], frames)
        id == Head(frames).sender
        po == peer_online(s, a.peers, peer_connections[s], id, i)
    IN
    /\ c.open /\ ~c.srvClosed
    /\ k \in 1..Len(c.toSrv)
    /\ k <= MaxChunk
    /\ c.srvWait = "pending" => k = 1
    /\ outgoing' = [outgoing EXCEPT ![s] = a.outgoing]
    /\ peers' = [peers EXCEPT ![s] = a.peers]
    /\ incoming' = [incoming EXCEPT ![s] = a.incoming]
    /\ ret' = NoCall
    /\ UNCHANGED <<started, now>>
    /\ CASE c.srvWait = "pending" /\ a.settle = "resolve" ->
                \* start(): peer_online, set_up_handlers, handshake_ack, inform_peer
                /\ peer_connections' = [peer_connections EXCEPT ![s] = po.pc]
                /\ ev' = EmitOn(s, a.ev \o po.ev)
                /\ conns' = SendAll([conns EXCEPT ![i] =
                                        [taken EXCEPT !.srvWait = "settled", !.srvPeer = id]],
                                    s, po.pc, i,
                                    <<ToPeer("reply", BareFrame("handshake_ack"))>>
                                        \o inform_peer(s, Store(s), po.pc, id))
                /\ UNCHANGED <<users, channels, messages, online_users, idCtr>>
         [] c.srvWait = "pending" /\ a.settle = "reject" ->
                \* start(): ws.close()
                /\ ev' = EmitOn(s, a.ev)
                /\ conns' = [conns EXCEPT ![i] =
                                [taken EXCEPT !.srvWait = "settled", !.srvClosed = TRUE,
                                              !.toSrv = <<>>, !.toCli = <<>>]]
                /\ UNCHANGED <<users, channels, messages, online_users, idCtr,
                               peer_connections>>
         [] c.srvWait = "pending" /\ a.settle = "" ->
                /\ ev' = EmitOn(s, a.ev)
                /\ conns' = SendAll([conns EXCEPT ![i] = taken], s, peer_connections[s],
                                    i, a.out)
                /\ UNCHANGED <<users, channels, messages, online_users, idCtr,
                               peer_connections>>
         [] OTHER ->
                \* the promise is settled: both listeners of the socket run
                LET r == DispatchAll(s, Store(s), Store(s), c.srvPeer, frames) IN
                /\ Commit(s, Result(r.st, a.ev \o r.ev, a.out \o r.out, r.val), i,
                          [conns EXCEPT ![i] = taken])
                /\ UNCHANGED peer_connections

\* the client end takes the first k frames that wait for it
ClientRecv(i, k) ==
    LET c == conns[i]
        s == c.cli
        frames == SubSeq(c.toCli, 1, k)
        taken == [c EXCEPT !.toCli = SubSeq(@, k + 1, Len(@))]
        po == peer_online(s, peers[s], peer_connections[s], c.peer, i)
    IN
    /\ c.open /\ ~c.cliClosed
    /\ k \in 1..Len(c.toCli)
    /\ k <= MaxChunk
    /\ ret' = NoCall
    /\ UNCHANGED <<started, now, outgoing, peers, incoming>>
    /\ CASE c.cliBound = "once" /\ Head(frames).type = "handshake_ack" ->
                \* the once-listener: the frames behind the first find no listener
                /\ peer_connections' = [peer_connections EXCEPT ![s] = po.pc]
                /\ ev' = EmitOn(s, po.ev)
                /\ conns' =
                     IF c.kind = "respond"
                     THEN SendAll([conns EXCEPT ![i] =
                                      [taken EXCEPT !.cliBound = "repl", !.cliPeer = c.peer]],
                                  s, po.pc, i, inform_peer(s, Store(s), po.pc, c.peer))
                     \* connect_to_peer: set_up_handlers(id, socket) is a ReferenceError
                     ELSE [conns EXCEPT ![i] = [taken EXCEPT !.cliBound = "none"]]
                /\ UNCHANGED <<users, channels, messages, online_users, idCtr>>
         [] c.cliBound = "repl" ->
                LET r == DispatchAll(s, Store(s), Store(s), c.cliPeer, frames) IN
                /\ Commit(s, r, i, [conns EXCEPT ![i] = taken])
                /\ UNCHANGED peer_connections
         [] OTHER ->
                /\ ev' = Quiet
                /\ conns' = [conns EXCEPT ![i] = [taken EXCEPT !.cliBound = "none"]]
                /\ UNCHANGED <<users, channels, messages, online_users, idCtr,
                               peer_connections>>

----------------------------------------------------------------------------
(* start() *)

\* connect_to_peer for the peer records of the database, in their order
RECURSIVE ConnectAll(_, _, _, _)
ConnectAll(cs, self, pc, prs) ==
    IF prs = <<>> THEN cs
    ELSE LET peer == Head(prs)
             target == Listening(peer.address, peer.port)
         IN  IF peer.id = self \/ pc[peer.id] # 0 \/ target = {}
             THEN ConnectAll(cs, self, pc, Tail(prs))
             ELSE ConnectAll(Append(cs, Conn("connect", self, The(target), peer.id, FALSE,
                                             peer.address, peer.port)),
                             self, pc, Tail(prs))

Start(s) ==
    /\ ~started[s]
    /\ started' = [started EXCEPT ![s] = TRUE]
    /\ conns' = ConnectAll(conns, s, peer_connections[s],
                           Sorted(peers[s], [q \in peers[s] |->
                               CHOOSE j \in DOMAIN ServerSeq : ServerSeq[j] = q.id]))
    /\ Len(conns') <= MaxConns
    /\ ev' = Quiet
    /\ ret' = NoCall
    /\ UNCHANGED <<users, channels, messages, peers, online_users, peer_connections,
                   outgoing, incoming, idCtr, now>>

----------------------------------------------------------------------------
(* stop() *)

\* socket.close() by server self: the connection carries nothing any more
Closed(c, self) ==
    [c EXCEPT !.cliClosed = @ \/ self = c.cli,
              !.srvClosed = @ \/ self = c.srv,
              !.toSrv = <<>>, !.toCli = <<>>]

\* the loop of stop() over peer_connections; a socket that is neither OPEN
\* nor CONNECTING is left alone
CloseAll(cs, self, pc) ==
    [i \in DOMAIN cs |->
        IF (\E t \in Servers : pc[t] = i) /\ ~cs[i].cliClosed /\ ~cs[i].srvClosed
        THEN Closed(cs[i], self)
        ELSE cs[i]]

\* stop(): wss.close() ends the listening, which leaves the connections the
\* server accepted open (ws 8); then the sockets of peer_connections are closed
Stop(s) ==
    /\ started[s]
    /\ started' = [started EXCEPT ![s] = FALSE]
    /\ conns' = CloseAll(conns, s, peer_connections[s])
    /\ ev' = Quiet
    /\ ret' = Ret("stop", s, NoId, NoId, "", FALSE, FALSE, Undefined)
    /\ UNCHANGED <<users, channels, messages, peers, online_users, peer_connections,
                   outgoing, incoming, idCtr, now>>

----------------------------------------------------------------------------
(* A client that is no server of the federation *)

\* some WebSocket client connects to the listener of s and writes frame f
Knock(s, f) ==
    /\ started[s]
    /\ Len(conns) < MaxConns
    /\ conns' = Append(conns, [Conn("stranger", "", s, "", FALSE, LOOPBACK, 0) EXCEPT
                                  !.open = TRUE, !.toSrv = <<f>>])
    /\ ev' = Quiet
    /\ ret' = NoCall
    /\ UNCHANGED <<started, users, channels, messages, peers, online_users,
                   peer_connections, outgoing, incoming, idCtr, now>>

\* the peer at the client end of connection i, which its listening server has
\* admitted, writes frame f
PeerSends(i, f) ==
    /\ conns[i].open /\ ~conns[i].cliClosed /\ ~conns[i].srvClosed
    /\ conns[i].srvPeer # ""
    /\ Len(conns[i].toSrv) < MaxQueue
    /\ conns' = [conns EXCEPT ![i].toSrv = Append(@, f)]
    /\ ev' = Quiet
    /\ ret' = NoCall
    /\ UNCHANGED <<started, users, channels, messages, peers, online_users,
                   peer_connections, outgoing, incoming, idCtr, now>>

----------------------------------------------------------------------------
(* The federation of two servers, from their construction on *)

\* an id no record of any server has
NoSuchId == Uuid("", 1)

\* the ids a call is made with: those the server holds a user (or a presence
\* entry), a channel or a message of, and one id it knows nothing of
UserArgs(s) == {u.id : u \in users[s]} \cup online_users[s] \cup {NoSuchId}
ChannelArgs(s) == {c.id : c \in channels[s]} \cup {NoSuchId}
MessageArgs(s) == {m.id : m \in messages[s]} \cup {NoSuchId}

Usernames == {"u"}
ChannelNames == {"c"}
Contents == {"m"}
Addresses == {LOOPBACK, MAPPED}
Ports == {PortOf[s] : s \in Servers}

Init ==
    /\ started = [s \in Pair |-> FALSE]
    /\ users = [s \in Servers |-> {}]
    /\ channels = [s \in Servers |-> {}]
    /\ messages = [s \in Servers |-> {}]
    /\ peers = [s \in Servers |-> {}]
    /\ online_users = [s \in Servers |-> {}]
    /\ peer_connections = [s \in Servers |-> [p \in Servers |-> 0]]
    /\ outgoing = [s \in Servers |-> <<>>]
    /\ incoming = [s \in Servers |-> {}]
    /\ conns = <<>>
    /\ idCtr = [s \in Servers |-> 0]
    /\ now = 0
    /\ ev = Quiet
    /\ ret = NoCall

\* the hosting application of A creates users and channels, logs users in and
\* posts; the servers pair
Next ==
    \/ \E s \in Servers : Start(s)
    \/ \E s \in Servers, address \in Addresses, port \in Ports : SendPairRequest(s, address, port)
    \/ \E s \in Servers, id \in Servers, accepted \in BOOLEAN : RespondToPairRequest(s, id, accepted)
    \/ \E i \in DOMAIN conns : Open(i)
    \/ \E i \in DOMAIN conns, k \in 1..MaxChunk : ServerRecv(i, k)
    \/ \E i \in DOMAIN conns, k \in 1..MaxChunk : ClientRecv(i, k)
    \/ \E username \in Usernames, admin \in BOOLEAN : CreateUser("A", username, admin)
    \/ \E id \in UserArgs("A") : LoginUser("A", id)
    \/ \E name \in ChannelNames, admin_only \in BOOLEAN, is_private \in BOOLEAN :
            CreateChannel("A", name, admin_only, is_private)
    \/ \E user_id \in UserArgs("A"), channel_id \in ChannelArgs("A"), content \in Contents :
            SendMessage("A", user_id, channel_id, content)

Spec == Init /\ [][Next]_vars

\* every socket opens, and every frame written to it is read
Delivery ==
    \A i \in 1..MaxConns :
        /\ WF_vars(i \in DOMAIN conns /\ Open(i))
        /\ WF_vars(i \in DOMAIN conns /\ \E k \in 1..MaxChunk : ServerRecv(i, k))
        /\ WF_vars(i \in DOMAIN conns /\ \E k \in 1..MaxChunk : ClientRecv(i, k))

\* the two servers pair, and their applications make no other call
PairNext ==
    \/ \E s \in Servers : Start(s)
    \/ \E s \in Servers, address \in Addresses, port \in Ports : SendPairRequest(s, address, port)
    \/ \E s \in Servers, id \in Servers, accepted \in BOOLEAN : RespondToPairRequest(s, id, accepted)
    \/ \E i \in DOMAIN conns : Open(i)
    \/ \E i \in DOMAIN conns, k \in 1..MaxChunk : ServerRecv(i, k)
    \/ \E i \in DOMAIN conns, k \in 1..MaxChunk : ClientRecv(i, k)

PairSpec == Init /\ [][PairNext]_vars /\ Delivery

----------------------------------------------------------------------------
(* Two servers that have paired: B accepted the pair request of A, A admitted *)
(* the connection of B, and every frame of the pairing has been read          *)

Linked ==
    /\ started = [s \in Pair |-> TRUE]
    /\ peers = [A |-> {PeerRecord("B", "B", LOOPBACK, PortOf["B"])},
                B |-> {PeerRecord("A", "A", LOOPBACK, PortOf["A"])}]
    /\ peer_connections = [A |-> [A |-> 0, B |-> 1], B |-> [A |-> 1, B |-> 0]]
    /\ outgoing = [s \in Servers |-> <<>>]
    /\ incoming = [A |-> {}, B |-> {PeerRecord("A", "A", LOOPBACK, PortOf["A"])}]
    /\ conns = <<[Conn("respond", "B", "A", "A", TRUE, LOOPBACK, PortOf["A"]) EXCEPT
                    !.open = TRUE, !.cliBound = "repl", !.cliPeer = "A",
                    !.srvWait = "settled", !.srvPeer = "B"]>>
    /\ online_users = [s \in Servers |-> {}]
    /\ now = 0
    /\ ev = Quiet
    /\ ret = NoCall

Connected == Linked /\ messages = [s \in Servers |-> {}]

LiveInit ==
    /\ Connected
    /\ users = [s \in Servers |-> {}]
    /\ channels = [s \in Servers |-> {}]
    /\ idCtr = [s \in Servers |-> 0]

LiveNext ==
    \/ Tick
    \/ \E username \in Usernames, admin \in BOOLEAN : CreateUser("A", username, admin)
    \/ \E id \in UserArgs("A") : LoginUser("A", id)
    \/ \E name \in ChannelNames, admin_only \in BOOLEAN, is_private \in BOOLEAN :
            CreateChannel("A", name, admin_only, is_private)
    \/ \E user_id \in UserArgs("A"), channel_id \in ChannelArgs("A"), content \in Contents :
            SendMessage("A", user_id, channel_id, content)
    \/ \E i \in DOMAIN conns, k \in 1..MaxChunk : ClientRecv(i, k)

\* every frame written to the socket is read
LiveSpec ==
    LiveInit /\ [][LiveNext]_vars
        /\ WF_vars(\E i \in DOMAIN conns, k \in 1..MaxChunk : ClientRecv(i, k))

----------------------------------------------------------------------------
(* The same two servers after B has created a user and a public channel:   *)
(* the application of A makes every call on its own and on B's records      *)

RemoteUser == [id |-> Uuid("B", 1), username |-> "v", admin |-> FALSE, peer |-> "B"]
\* a user of A
LocalUser == [id |-> Uuid("A", 1), username |-> "u", admin |-> FALSE, peer |-> "A"]

RemoteChannel ==
    [id |-> Uuid("B", 2), name |-> "d", admin_only |-> FALSE, is_private |-> FALSE,
     timestamp |-> 0, peer |-> "B"]

LocalInit ==
    /\ Connected
    /\ users = [s \in Servers |-> {RemoteUser}]
    /\ channels = [s \in Servers |-> {RemoteChannel}]
    /\ idCtr = [A |-> 0, B |-> 2]

Few == idCtr'["A"] <= LocalIds

LocalNext ==
    \/ \E username \in Usernames \cup {RemoteUser.username}, admin \in BOOLEAN :
            CreateUser("A", username, admin) /\ Few
    \/ \E id \in UserArgs("A") : DeleteUser("A", id)
    \/ \E id \in UserArgs("A") : LoginUser("A", id)
    \/ \E id \in UserArgs("A") : LogoutUser("A", id)
    \/ \E name \in ChannelNames \cup {RemoteChannel.name}, admin_only \in BOOLEAN,
           is_private \in BOOLEAN :
            CreateChannel("A", name, admin_only, is_private) /\ Few
    \/ \E id \in ChannelArgs("A") : DeleteChannel("A", id)
    \/ \E user_id \in UserArgs("A"), channel_id \in ChannelArgs("A"), content \in Contents :
            SendMessage("A", user_id, channel_id, content) /\ Few
    \/ \E i \in DOMAIN conns, k \in 1..MaxChunk : ClientRecv(i, k)

LocalSpec == LocalInit /\ [][LocalNext]_vars

\* A reads the messages of two channels of B.  The messages it stored in
\* them carry the clock of B, so their timestamps need not follow the order
\* of the store.
OtherChannel ==
    [id |-> Uuid("B", 3), name |-> "e", admin_only |-> FALSE, is_private |-> FALSE,
     timestamp |-> 0, peer |-> "B"]

StoredMessage(k, timestamp, channel_id) ==
    [id |-> Uuid("A", k), content |-> "m", timestamp |-> timestamp,
     user |-> RemoteUser.id, channel |-> channel_id]

MessageStores(k) ==
    LET slots == (0..MaxTime) \X {RemoteChannel.id, OtherChannel.id} IN
    {{StoredMessage(j, f[j][1], f[j][2]) : j \in 1..k} : f \in [1..k -> slots]}

PageInit ==
    /\ Linked
    /\ users = [s \in Servers |-> {RemoteUser}]
    /\ channels = [s \in Servers |-> {RemoteChannel, OtherChannel}]
    /\ \E k \in 0..MaxIds :
          /\ idCtr = [A |-> k, B |-> 3]
          /\ \E stored \in MessageStores(k) : messages = [A |-> stored, B |-> {}]

PageNext ==
    \E channel_id \in ChannelArgs("A"), timestamp \in 0..(MaxTime + 1), limit \in 0..MaxIds :
        GetMessages("A", channel_id, timestamp, limit)

PageSpec == PageInit /\ [][PageNext]_vars

\* A, connected to B, holds a user of B and one channel of its own, created
\* with any flags; its application creates, logs in, logs out and deletes
\* users, posts and deletes messages, and asks who is online in a channel.
FlaggedChannel(admin_only, is_private) ==
    [id |-> Uuid("A", 1), name |-> "c", admin_only |-> admin_only,
     is_private |-> is_private, timestamp |-> 0, peer |-> "A"]

PresenceInit ==
    /\ Connected
    /\ users = [s \in Servers |-> {RemoteUser}]
    /\ idCtr = [A |-> 1, B |-> 1]
    /\ \E admin_only \in BOOLEAN, is_private \in BOOLEAN :
          LET c == FlaggedChannel(admin_only, is_private) IN
          channels = [A |-> {c}, B |-> IF admin_only \/ is_private THEN {} ELSE {c}]

PresenceNext ==
    \/ \E username \in Usernames, admin \in BOOLEAN : CreateUser("A", username, admin) /\ Few
    \/ \E id \in UserArgs("A") : DeleteUser("A", id)
    \/ \E id \in UserArgs("A") : LoginUser("A", id)
    \/ \E id \in UserArgs("A") : LogoutUser("A", id)
    \/ \E user_id \in UserArgs("A"), channel_id \in ChannelArgs("A"), content \in Contents :
            SendMessage("A", user_id, channel_id, content) /\ Few
    \/ \E id \in MessageArgs("A") : DeleteMessage("A", id)
    \/ \E channel_id \in ChannelArgs("A") : GetOnlineUsers("A", channel_id)
    \/ \E channel_id \in ChannelArgs("A") : GetOnlineLocalUsers("A", channel_id)
    \/ \E channel_id \in ChannelArgs("A") : GetOnlineRemoteUsers("A", channel_id)
    \/ \E i \in DOMAIN conns, k \in 1..MaxChunk : ClientRecv(i, k)

PresenceSpec == PresenceInit /\ [][PresenceNext]_vars

\* B has received the pair request of A and has not answered it yet; the
\* socket that carried the request is closed.  B answers, the servers stop
\* and start, and the application of B creates users.
Requested ==
    /\ started = [s \in Pair |-> TRUE]
    /\ users = [s \in Servers |-> {}]
    /\ channels = [s \in Servers |-> {}]
    /\ messages = [s \in Servers |-> {}]
    /\ online_users = [s \in Servers |-> {}]
    /\ peers = [s \in Servers |-> {}]
    /\ peer_connections = [s \in Servers |-> [t \in Servers |-> 0]]
    /\ outgoing = [A |-> <<[ip |-> LOOPBACK, port |-> PortOf["B"]]>>, B |-> <<>>]
    /\ incoming = [A |-> {}, B |-> {PeerRecord("A", "A", LOOPBACK, PortOf["A"])}]
    /\ conns = <<>>
    /\ idCtr = [s \in Servers |-> 0]
    /\ now = 0
    /\ ev = Quiet
    /\ ret = NoCall

StopNext ==
    \/ \E accepted \in BOOLEAN : RespondToPairRequest("B", "A", accepted)
    \/ \E s \in Servers : Stop(s)
    \/ \E s \in Servers : Start(s)
    \/ \E i \in DOMAIN conns : Open(i)
    \/ \E i \in DOMAIN conns, k \in 1..MaxChunk : ServerRecv(i, k)
    \/ \E i \in DOMAIN conns, k \in 1..MaxChunk : ClientRecv(i, k)
    \/ \E username \in Usernames : CreateUser("B", username, FALSE) /\ idCtr'["B"] <= LocalIds
    \/ \E id \in UserArgs("B") : LoginUser("B", id)

StopSpec == Requested /\ [][StopNext]_vars

\* every connection that was made opens, and every frame written to a socket
\* is read
StopLiveSpec ==
    StopSpec
        /\ \A i \in 1..MaxConns :
              /\ WF_vars(i \in DOMAIN conns /\ Open(i))
              /\ WF_vars(\E k \in 1..MaxChunk : i \in DOMAIN conns /\ ServerRecv(i, k))
              /\ WF_vars(\E k \in 1..MaxChunk : i \in DOMAIN conns /\ ClientRecv(i, k))

\* The same pending request, while the application of A creates users and
\* logs them in: B answers, stops and starts again, which makes it connect to
\* the peers it has a record of.
RejoinNext ==
    \/ \E accepted \in BOOLEAN : RespondToPairRequest("B", "A", accepted)
    \/ Stop("B")
    \/ Start("B")
    \/ \E i \in DOMAIN conns : Open(i)
    \/ \E i \in DOMAIN conns, k \in 1..MaxChunk : ServerRecv(i, k)
    \/ \E i \in DOMAIN conns, k \in 1..MaxChunk : ClientRecv(i, k)
    \/ \E username \in Usernames : CreateUser("A", username, FALSE) /\ Few
    \/ \E id \in UserArgs("A") : LoginUser("A", id)

RejoinSpec == Requested /\ [][RejoinNext]_vars

\* The same pending request, sent by a server A that holds users of its own,
\* some of them logged in, and a channel of its own with any flags; B accepts
\* the request and the applications make no other call.
SecondUser == [id |-> Uuid("A", 2), username |-> "x", admin |-> FALSE, peer |-> "A"]

OwnChannel(admin_only, is_private) ==
    [id |-> Uuid("A", 3), name |-> "c", admin_only |-> admin_only,
     is_private |-> is_private, timestamp |-> 0, peer |-> "A"]

CatchUpInit ==
    /\ started = [s \in Pair |-> TRUE]
    /\ \E own \in {{}, {LocalUser}, {LocalUser, SecondUser}} :
          /\ users = [A |-> own, B |-> {}]
          /\ \E online \in SUBSET {u.id : u \in own} : online_users = [A |-> online, B |-> {}]
    /\ \E admin_only \in BOOLEAN, is_private \in BOOLEAN :
          channels = [A |-> {OwnChannel(admin_only, is_private)}, B |-> {}]
    /\ messages = [s \in Servers |-> {}]
    /\ peers = [s \in Servers |-> {}]
    /\ peer_connections = [s \in Servers |-> [t \in Servers |-> 0]]
    /\ outgoing = [A |-> <<[ip |-> LOOPBACK, port |-> PortOf["B"]]>>, B |-> <<>>]
    /\ incoming = [A |-> {}, B |-> {PeerRecord("A", "A", LOOPBACK, PortOf["A"])}]
    /\ conns = <<>>
    /\ idCtr = [A |-> 3, B |-> 0]
    /\ now = 0
    /\ ev = Quiet
    /\ ret = NoCall

CatchUpNext ==
    \/ \E accepted \in BOOLEAN : RespondToPairRequest("B", "A", accepted)
    \/ \E i \in DOMAIN conns : Open(i)
    \/ \E i \in DOMAIN conns, k \in 1..MaxChunk : ServerRecv(i, k)
    \/ \E i \in DOMAIN conns, k \in 1..MaxChunk : ClientRecv(i, k)

CatchUpSpec == CatchUpInit /\ [][CatchUpNext]_vars

\* A and B are paired and connected and each holds a user of its own and the
\* copy of the other's, logged in or not on both.  A has sent B a pair request
\* once more: B stored it as it did the first, and the socket that carried it
\* is closed.  B answers the request, and the application of A logs users in.
RepairRequested ==
    /\ started = [s \in Pair |-> TRUE]
    /\ users = [s \in Servers |-> {LocalUser, RemoteUser}]
    /\ channels = [s \in Servers |-> {}]
    /\ messages = [s \in Servers |-> {}]
    /\ peers = [A |-> {PeerRecord("B", "B", LOOPBACK, PortOf["B"])},
                B |-> {PeerRecord("A", "A", LOOPBACK, PortOf["A"])}]
    /\ peer_connections = [A |-> [A |-> 0, B |-> 1], B |-> [A |-> 1, B |-> 0]]
    /\ outgoing = [A |-> <<[ip |-> LOOPBACK, port |-> PortOf["B"]]>>, B |-> <<>>]
    /\ incoming = [A |-> {}, B |-> {PeerRecord("A", "A", LOOPBACK, PortOf["A"])}]
    /\ conns = <<[Conn("respond", "B", "A", "A", TRUE, LOOPBACK, PortOf["A"]) EXCEPT
                    !.open = TRUE, !.cliBound = "repl", !.cliPeer = "A",
                    !.srvWait = "settled", !.srvPeer = "B"]>>
    /\ \E online \in SUBSET {LocalUser.id, RemoteUser.id} :
          online_users = [s \in Servers |-> online]
    /\ idCtr = [A |-> 1, B |-> 1]
    /\ now = 0
    /\ ev = Quiet
    /\ ret = NoCall

RepairNext ==
    \/ \E accepted \in BOOLEAN : RespondToPairRequest("B", "A", accepted)
    \/ \E i \in DOMAIN conns : Open(i)
    \/ \E i \in DOMAIN conns, k \in 1..MaxChunk : ServerRecv(i, k)
    \/ \E i \in DOMAIN conns, k \in 1..MaxChunk : ClientRecv(i, k)
    \/ \E id \in UserArgs("A") : LoginUser("A", id)

RepairSpec == RepairRequested /\ [][RepairNext]_vars

\* A, connected to B, holds a user and a channel of its own, of B and of a
\* third peer C.  B writes delete_user and channel_delete frames for any id;
\* the application of A deletes users and channels by any id.
ThirdUser == [id |-> Uuid("C", 1), username |-> "w", admin |-> FALSE, peer |-> "C"]
ThirdChannel ==
    [id |-> Uuid("C", 2), name |-> "f", admin_only |-> FALSE, is_private |-> FALSE,
     timestamp |-> 0, peer |-> "C"]

DeleteFrames ==
    {IdFrame("delete_user", id) : id \in {LocalUser.id, RemoteUser.id, ThirdUser.id, NoSuchId}}
        \cup {IdFrame("channel_delete", id) :
                  id \in {OwnChannel(FALSE, FALSE).id, RemoteChannel.id, ThirdChannel.id, NoSuchId}}

OwnerInit ==
    /\ Connected
    /\ users = [A |-> {LocalUser, RemoteUser, ThirdUser}, B |-> {LocalUser, RemoteUser}]
    /\ channels = [A |-> {OwnChannel(FALSE, FALSE), RemoteChannel, ThirdChannel},
                   B |-> {OwnChannel(FALSE, FALSE), RemoteChannel}]
    /\ idCtr = [A |-> 3, B |-> 2]

OwnerNext ==
    \/ \E f \in DeleteFrames : PeerSends(1, f)
    \/ \E id \in UserArgs("A") : DeleteUser("A", id)
    \/ \E id \in ChannelArgs("A") : DeleteChannel("A", id)
    \/ \E i \in DOMAIN conns, k \in 1..MaxChunk : ServerRecv(i, k)
    \/ \E i \in DOMAIN conns, k \in 1..MaxChunk : ClientRecv(i, k)

OwnerSpec == OwnerInit /\ [][OwnerNext]_vars

\* The same stores, while B writes create_user and channel_create frames for
\* the ids A holds a record of and for new ids, with names of its own; the
\* application of A deletes users and channels.
CreateFrames ==
    {CreateUserFrame([id |-> id, username |-> "z"]) :
        id \in {LocalUser.id, ThirdUser.id, Uuid("B", 4)}}
    \cup {ChannelCreateFrame([id |-> id, name |-> "g", timestamp |-> 1]) :
              id \in {RemoteChannel.id, Uuid("B", 5)}}

RecreateNext ==
    \/ \E f \in CreateFrames : PeerSends(1, f)
    \/ \E id \in UserArgs("A") : DeleteUser("A", id)
    \/ \E id \in ChannelArgs("A") : DeleteChannel("A", id)
    \/ \E i \in DOMAIN conns, k \in 1..MaxChunk : ServerRecv(i, k)
    \/ \E i \in DOMAIN conns, k \in 1..MaxChunk : ClientRecv(i, k)

RecreateSpec == OwnerInit /\ [][RecreateNext]_vars

\* Two connected servers whose applications both create and delete users,
\* with the same usernames to choose from.
TwinNext ==
    \/ \E s \in Servers, username \in Usernames :
          CreateUser(s, username, FALSE) /\ idCtr'[s] <= LocalIds
    \/ \E s \in Servers : \E id \in UserArgs(s) : DeleteUser(s, id)
    \/ \E i \in DOMAIN conns, k \in 1..MaxChunk : ServerRecv(i, k)
    \/ \E i \in DOMAIN conns, k \in 1..MaxChunk : ClientRecv(i, k)

TwinSpec == LiveInit /\ [][TwinNext]_vars

\* The application of A makes two calls of create_user, or of create_channel,
\* with one name without awaiting the first; it also deletes what it created.
RaceNext ==
    \/ \E username \in Usernames : CreateUsersTogether("A", username)
    \/ \E name \in ChannelNames : CreateChannelsTogether("A", name)
    \/ \E id \in UserArgs("A") : DeleteUser("A", id)
    \/ \E id \in ChannelArgs("A") : DeleteChannel("A", id)
    \/ \E i \in DOMAIN conns, k \in 1..MaxChunk : ClientRecv(i, k)

RaceSpec == LiveInit /\ [][RaceNext]_vars

\* The same stores, while B writes frames of the pairing protocol on the
\* connection A has admitted; the application of A logs users in and out.
PairingFrames ==
    {PairFrame(type, "B") : type \in {"pair_request", "pair_accept", "pair_reject"}}
    \cup {HandshakeFrame("B")}

AdmittedNext ==
    \/ \E f \in PairingFrames : PeerSends(1, f)
    \/ \E id \in UserArgs("A") : LoginUser("A", id)
    \/ \E id \in UserArgs("A") : LogoutUser("A", id)
    \/ \E i \in DOMAIN conns, k \in 1..MaxChunk : ServerRecv(i, k)
    \/ \E i \in DOMAIN conns, k \in 1..MaxChunk : ClientRecv(i, k)

AdmittedSpec == OwnerInit /\ [][AdmittedNext]_vars

\* A, which has paired with nobody, holds a user and a channel of its own. A
\* client connects to A, sends a handshake with the id "B", of which A has no
\* Peer record, and then frames of the replication protocol.
StrangerInit ==
    /\ started = [A |-> TRUE, B |-> FALSE]
    /\ users = [A |-> {LocalUser}, B |-> {}]
    /\ channels = [A |-> {OwnChannel(FALSE, FALSE)}, B |-> {}]
    /\ messages = [s \in Servers |-> {}]
    /\ peers = [s \in Servers |-> {}]
    /\ online_users = [s \in Servers |-> {}]
    /\ peer_connections = [s \in Servers |-> [p \in Servers |-> 0]]
    /\ outgoing = [s \in Servers |-> <<>>]
    /\ incoming = [s \in Servers |-> {}]
    /\ conns = <<>>
    /\ idCtr = [A |-> 3, B |-> 0]
    /\ now = 0
    /\ ev = Quiet
    /\ ret = NoCall

StrangerFrames ==
    {CreateUserFrame([id |-> Uuid("B", 1), username |-> "w"]),
     ChannelCreateFrame([id |-> Uuid("B", 2), name |-> "e", timestamp |-> 0]),
     IdFrame("login", LocalUser.id), IdFrame("logout", LocalUser.id)}

StrangerNext ==
    \/ Knock("A", HandshakeFrame("B"))
    \/ \E i \in DOMAIN conns, f \in StrangerFrames : PeerSends(i, f)
    \/ \E i \in DOMAIN conns, k \in 1..MaxChunk : ServerRecv(i, k)
    \/ \E id \in UserArgs("A") : LoginUser("A", id)

StrangerSpec == StrangerInit /\ [][StrangerNext]_vars

\* A mesh of three servers: every two have paired and are connected, and
\* every frame of the pairing has been read.  Every server holds the user of
\* A and the user of B, who are logged in, and the public channel of B.
MeshConn(cli, srv) ==
    [Conn("respond", cli, srv, srv, TRUE, LOOPBACK, PortOf[srv]) EXCEPT
        !.open = TRUE, !.cliBound = "repl", !.cliPeer = srv,
        !.srvWait = "settled", !.srvPeer = cli]

MeshInit ==
    /\ started = [s \in Mesh |-> TRUE]
    /\ peers = [s \in Mesh |-> {PeerRecord(t, t, LOOPBACK, PortOf[t]) : t \in Mesh \ {s}}]
    /\ conns = <<MeshConn("B", "A"), MeshConn("C", "A"), MeshConn("C", "B")>>
    /\ peer_connections = [A |-> [A |-> 0, B |-> 1, C |-> 2],
                           B |-> [A |-> 1, B |-> 0, C |-> 3],
                           C |-> [A |-> 2, B |-> 3, C |-> 0]]
    /\ users = [s \in Mesh |-> {LocalUser, RemoteUser}]
    /\ online_users = [s \in Mesh |-> {LocalUser.id, RemoteUser.id}]
    /\ channels = [s \in Mesh |-> {RemoteChannel}]
    /\ messages = [s \in Mesh |-> {}]
    /\ outgoing = [s \in Mesh |-> <<>>]
    /\ incoming = [s \in Mesh |-> {}]
    /\ idCtr = [A |-> 1, B |-> 2, C |-> 0]
    /\ now = 0
    /\ ev = Quiet
    /\ ret = NoCall

\* the application of A posts into the channel; those of A and B log their
\* own users in
MeshNext ==
    \/ Tick
    \/ \E user_id \in UserArgs("A"), channel_id \in ChannelArgs("A"), content \in Contents :
            SendMessage("A", user_id, channel_id, content) /\ Few
    \/ \E s \in Pair : \E u \in users[s] : u.peer = s /\ LoginUser(s, u.id)
    \/ \E i \in DOMAIN conns, k \in 1..MaxChunk : ServerRecv(i, k)
    \/ \E i \in DOMAIN conns, k \in 1..MaxChunk : ClientRecv(i, k)

\* every frame written to a socket is read
MeshSpec ==
    MeshInit /\ [][MeshNext]_vars
        /\ \A i \in 1..3 :
              /\ WF_vars(\E k \in 1..MaxChunk : i \in DOMAIN conns /\ ServerRecv(i, k))
              /\ WF_vars(\E k \in 1..MaxChunk : i \in DOMAIN conns /\ ClientRecv(i, k))

\* The mesh, in which B logs its user in and then stops, which closes its
\* sockets, while the application of A logs its user in and out, creates a
\* public channel and posts.
OutageNext ==
    \/ Stop("B")
    \/ \E s \in Pair : \E u \in users[s] : u.peer = s /\ LoginUser(s, u.id)
    \/ \E u \in users["A"] : u.peer = "A" /\ LogoutUser("A", u.id)
    \/ \E name \in ChannelNames : CreateChannel("A", name, FALSE, FALSE)
    \/ \E user_id \in UserArgs("A"), channel_id \in ChannelArgs("A"), content \in Contents :
            SendMessage("A", user_id, channel_id, content)
    \/ \E i \in DOMAIN conns, k \in 1..MaxChunk : ServerRecv(i, k)
    \/ \E i \in DOMAIN conns, k \in 1..MaxChunk : ClientRecv(i, k)

OutageSpec == MeshInit /\ [][OutageNext]_vars

\* A waits for the answers to the pair requests it has sent, to B and to
\* other targets: another host, and another port of this host.  B holds the
\* request of A and answers it.
OtherAddress == "10.0.0.2"

Targets ==
    {[ip |-> ip, port |-> port] :
        ip \in {LOOPBACK, OtherAddress}, port \in {PortOf["B"], PortOf["B"] + 1}}

\* the lists of up to MaxConns requests to different targets, B among them
OutgoingLists ==
    LET lists == UNION {[1..n -> Targets] : n \in 1..MaxConns} IN
    {l \in lists :
        /\ \A j, k \in DOMAIN l : l[j] = l[k] => j = k
        /\ \E j \in DOMAIN l : l[j] = [ip |-> LOOPBACK, port |-> PortOf["B"]]}

AnswerInit ==
    /\ started = [s \in Pair |-> TRUE]
    /\ users = [s \in Servers |-> {}]
    /\ channels = [s \in Servers |-> {}]
    /\ messages = [s \in Servers |-> {}]
    /\ online_users = [s \in Servers |-> {}]
    /\ peers = [s \in Servers |-> {}]
    /\ peer_connections = [s \in Servers |-> [t \in Servers |-> 0]]
    /\ \E l \in OutgoingLists : outgoing = [A |-> l, B |-> <<>>]
    /\ incoming = [A |-> {}, B |-> {PeerRecord("A", "A", LOOPBACK, PortOf["A"])}]
    /\ conns = <<>>
    /\ idCtr = [s \in Servers |-> 0]
    /\ now = 0
    /\ ev = Quiet
    /\ ret = NoCall

AnswerNext ==
    \/ \E accepted \in BOOLEAN : RespondToPairRequest("B", "A", accepted)
    \/ \E i \in DOMAIN conns : Open(i)
    \/ \E i \in DOMAIN conns, k \in 1..MaxChunk : ServerRecv(i, k)
    \/ \E i \in DOMAIN conns, k \in 1..MaxChunk : ClientRecv(i, k)

AnswerSpec == AnswerInit /\ [][AnswerNext]_vars

\* A and B are paired and connected, and their applications send and answer
\* pair requests again.
PairedInit ==
    /\ Connected
    /\ users = [s \in Servers |-> {}]
    /\ channels = [s \in Servers |-> {}]
    /\ idCtr = [s \in Servers |-> 0]

PairedNext ==
    \/ \E s \in Servers, address \in Addresses, port \in Ports : SendPairRequest(s, address, port)
    \/ \E s \in Servers, id \in Servers, accepted \in BOOLEAN : RespondToPairRequest(s, id, accepted)
    \/ \E i \in DOMAIN conns : Open(i)
    \/ \E i \in DOMAIN conns, k \in 1..MaxChunk : ServerRecv(i, k)

PairedSpec == PairedInit /\ [][PairedNext]_vars

\* the same, with every socket opening and every frame sent to a listening
\* server read
PairedDelivery ==
    \A i \in 1..MaxConns :
        /\ WF_vars(i \in DOMAIN conns /\ Open(i))
        /\ WF_vars(i \in DOMAIN conns /\ \E k \in 1..MaxChunk : ServerRecv(i, k))

PairedLiveSpec == PairedInit /\ [][PairedNext]_vars /\ PairedDelivery

\* A, connected to B, holds a user and a channel of B and a user of its own
\* that is logged in.  A client connects to A and sends, as its first frame,
\* a frame of the replication protocol; the application of A goes on.
FirstFrames ==
    {IdFrame("login", RemoteUser.id), IdFrame("logout", LocalUser.id),
     CreateUserFrame([id |-> Uuid("B", 3), username |-> "w"]),
     IdFrame("delete_user", RemoteUser.id),
     ChannelCreateFrame([id |-> Uuid("B", 3), name |-> "e", timestamp |-> 0]),
     IdFrame("channel_delete", RemoteChannel.id),
     Frame("send_message", NoId, "", 0, RemoteUser.id, RemoteChannel.id, "m", "", 0),
     IdFrame("delete_message", NoSuchId),
     BareFrame("get_messages"), BareFrame("handshake_ack")}

KnockInit ==
    /\ Connected
    /\ users = [s \in Servers |-> {RemoteUser, LocalUser}]
    /\ channels = [s \in Servers |-> {RemoteChannel}]
    /\ idCtr = [A |-> 1, B |-> 2]

KnockNext ==
    \/ \E f \in FirstFrames : Knock("A", f)
    \/ \E i \in DOMAIN conns, k \in 1..MaxChunk : ServerRecv(i, k)
    \/ \E i \in DOMAIN conns, k \in 1..MaxChunk : ClientRecv(i, k)
    \/ \E id \in UserArgs("A") : LoginUser("A", id)
    \/ \E id \in UserArgs("A") : LogoutUser("A", id)
    \/ \E user_id \in UserArgs("A"), channel_id \in ChannelArgs("A"), content \in Contents :
            SendMessage("A", user_id, channel_id, content) /\ Few

KnockSpec == KnockInit /\ [][KnockNext]_vars

----------------------------------------------------------------------------
(* Properties of the calls of the public API *)

\* a return value that is an id
IsId(v) == v[1] \in Servers

Ids(records) == {r.id : r \in records}

\* C5: create_user(n) returns the id of a new user named n when the store holds
\* no user named n; when it holds one, the call returns null, leaves the store
\* and the presence set as they were, emits no event and sends nothing
CreateUserRejectsDuplicates ==
    [][ret'.op = "create_user" =>
          LET s == ret'.srv
              n == ret'.name
          IN  IF \E u \in users[s] : u.username = n
              THEN /\ ret'.val = Null
                   /\ UNCHANGED <<users, channels, messages, online_users>>
                   /\ ev' = Quiet
                   /\ conns' = conns
              ELSE /\ IsId(ret'.val)
                   /\ ret'.val \notin Ids(users[s])
                   /\ \E u \in users'[s] : u.id = ret'.val /\ u.username = n]_vars

\* a second create_user with the name of a stored user has returned null
CreateUserTwice ==
    /\ ret.op = "create_user"
    /\ ret.val = Null
    /\ \E u \in users[ret.srv] : u.username = ret.name /\ u.peer = ret.srv

\* C6: create_channel(n, ...) returns the id of a new channel named n when the
\* store holds no channel named n; when it holds one, whatever its flags and
\* its owner, the call returns null, leaves the store as it was, emits no event
\* and sends nothing
CreateChannelRejectsDuplicates ==
    [][ret'.op = "create_channel" =>
          LET s == ret'.srv
              n == ret'.name
          IN  IF \E c \in channels[s] : c.name = n
              THEN /\ ret'.val = Null
                   /\ UNCHANGED <<users, channels, messages, online_users>>
                   /\ ev' = Quiet
                   /\ conns' = conns
              ELSE /\ IsId(ret'.val)
                   /\ ret'.val \notin Ids(channels[s])
                   /\ \E c \in channels'[s] : c.id = ret'.val /\ c.name = n]_vars

\* create_channel has returned null for the name of a private channel
CreateChannelTwice ==
    /\ ret.op = "create_channel"
    /\ ret.val = Null
    /\ \E c \in channels[ret.srv] : c.name = ret.name /\ c.is_private

\* C7: login_user(id) returns true exactly when the store holds a user with
\* this id; the user is then in the presence set and user_online was emitted;
\* when it returns false the presence set is as it was, no event was emitted
\* and nothing was sent
LoginUserContract ==
    [][ret'.op = "login_user" =>
          LET s == ret'.srv
              id == ret'.id
          IN  IF id \in Ids(users[s])
              THEN /\ ret'.val = True
                   /\ id \in online_users'[s]
                   /\ \E j \in DOMAIN ev'[s] :
                         ev'[s][j].type = "user_online" /\ ev'[s][j].id = id
              ELSE /\ ret'.val = False
                   /\ online_users' = online_users
                   /\ ev' = Quiet
                   /\ conns' = conns]_vars

\* a user of the other server has been logged in
LoginRemoteUser ==
    /\ ret.op = "login_user"
    /\ ret.val = True
    /\ ret.id \in online_users[ret.srv]
    /\ \E u \in users[ret.srv] : u.id = ret.id /\ u.peer # ret.srv

\* C8: logout_user(id) returns true exactly when the store holds a user with
\* this id and the id is in the presence set; the id is then removed from the
\* presence set and user_offline is emitted; in every other case the call
\* returns false and the presence set is as it was
LogoutUserContract ==
    [][ret'.op = "logout_user" =>
          LET s == ret'.srv
              id == ret'.id
          IN  IF id \in Ids(users[s]) /\ id \in online_users[s]
              THEN /\ ret'.val = True
                   /\ online_users'[s] = online_users[s] \ {id}
                   /\ \E j \in DOMAIN ev'[s] :
                         ev'[s][j].type = "user_offline" /\ ev'[s][j].id = id
              ELSE /\ ret'.val = False
                   /\ online_users' = online_users
                   /\ ev' = Quiet]_vars

\* a logged-in user has been logged out
LoggedOut ==
    /\ ret.op = "logout_user"
    /\ ret.val = True
    /\ ret.id \in Ids(users[ret.srv])
    /\ ret.id \notin online_users[ret.srv]

\* C9: delete_channel(c) returns true only when the store holds c as a channel
\* of this server, and c is then gone: get_channel(c) is null and the three
\* get_online_* queries return an empty list; it returns false when the store
\* does not hold c; and an id this server has drawn never comes back into its
\* channels once it is out of them, so a true return is never followed by
\* another for the same id
DeleteChannelOnce ==
    [][/\ ret'.op = "delete_channel" =>
            LET s == ret'.srv
                c == ret'.chan
                after == [users |-> users'[s], channels |-> channels'[s],
                          messages |-> messages'[s], online |-> online_users'[s],
                          idc |-> idCtr'[s]]
            IN  /\ ret'.val \in {True, False}
                /\ ret'.val = True =>
                      /\ \E ch \in channels[s] : ch.id = c /\ ch.peer = s
                      /\ c \notin Ids(channels'[s])
                      /\ get_channel(after, c) = {}
                      /\ get_online_users(s, after, c) = Listed({})
                      /\ get_online_local_users(s, after, c) = Listed({})
                      /\ get_online_remote_users(s, after, c) = Listed({})
                /\ c \notin Ids(channels[s]) => ret'.val = False
       /\ \A s \in Servers, k \in 1..(MaxIds + 1) :
            k <= idCtr[s] /\ Uuid(s, k) \notin Ids(channels[s])
                => Uuid(s, k) \notin Ids(channels'[s])]_vars

\* delete_channel has returned true while a user is logged in
ChannelDeleted ==
    /\ ret.op = "delete_channel"
    /\ ret.val = True
    /\ ret.chan \notin Ids(channels[ret.srv])
    /\ online_users[ret.srv] # {}

\* C10: send_message(user, channel, content) returns the id of a new message
\* when the store holds the channel, the user is in the presence set and the
\* channel is not admin_only or the user is an administrator; in every other
\* case it returns null, stores no message, emits no event and sends nothing
SendMessageContract ==
    [][ret'.op = "send_message" =>
          LET s == ret'.srv
              u == ret'.id
              accepted == \E c \in channels[s] :
                             /\ c.id = ret'.chan
                             /\ u \in online_users[s]
                             /\ \/ ~c.admin_only
                                \/ \E x \in users[s] : x.id = u /\ x.admin
          IN  IF accepted
              THEN /\ IsId(ret'.val)
                   /\ \E m \in messages'[s] : m.id = ret'.val /\ m.content = ret'.name
              ELSE /\ ret'.val = Null
                   /\ messages' = messages
                   /\ ev' = Quiet
                   /\ conns' = conns]_vars

----------------------------------------------------------------------------
(* Properties of the federation *)

Emitted(s, type) == {j \in DOMAIN ev[s] : ev[s][j].type = type}

\* B has just answered the pair request of A, for the first time and with
\* accepted = true, while A still waits for the answer
Accepted ==
    /\ ret.op = "respond_to_pair_request"
    /\ ret.srv = "B" /\ ret.name = "A" /\ ret.f1
    /\ ret.val = True
    /\ \E j \in DOMAIN outgoing["A"] :
          outgoing["A"][j].ip = LOOPBACK /\ outgoing["A"][j].port = PortOf["B"]
    /\ "B" \notin Ids(peers["A"])
    /\ \A i \in 1..(Len(conns) - 1) : ~(conns[i].kind = "respond" /\ conns[i].cli = "B")

\* A emits pair_accept and peer_online for B, and holds the Peer record of B
AdmittedByA ==
    /\ \E j \in Emitted("A", "pair_accept") : ev["A"][j].peer = "B"
    /\ \E j \in Emitted("A", "peer_online") : ev["A"][j].peer = "B"
    /\ "B" \in Ids(peers["A"])

\* B emits peer_online for A, and each server holds the Peer record of the other
BothOnline ==
    /\ \E j \in Emitted("B", "peer_online") : ev["B"][j].peer = "A"
    /\ "B" \in Ids(peers["A"])
    /\ "A" \in Ids(peers["B"])
    /\ peer_connections["A"]["B"] # 0
    /\ peer_connections["B"]["A"] # 0

\* B answers a pair request of A with accepted = false
Rejected ==
    /\ ret.op = "respond_to_pair_request"
    /\ ret.srv = "B" /\ ret.name = "A" /\ ~ret.f1
    /\ ret.val = True

\* C1: once B has accepted the pending pair request of A (and B never rejects
\* it), A eventually emits pair_accept and peer_online for B, B eventually
\* emits peer_online for A, and each then holds a Peer record with the id of
\* the other
PairingCompletes ==
    [](~Rejected) => ((Accepted ~> AdmittedByA) /\ (Accepted ~> BothOnline))

\* the pairing has completed over the connection B opened to answer A
PairingCompleted ==
    /\ BothOnline
    /\ \E i \in DOMAIN conns :
          conns[i].kind = "respond" /\ conns[i].cli = "B" /\ conns[i].open

\* each server holds the socket of the other in peer_connections
BothConnected == peer_connections["A"]["B"] # 0 /\ peer_connections["B"]["A"] # 0

\* A has just created a public channel
Created ==
    /\ ret.op = "create_channel" /\ ret.srv = "A"
    /\ IsId(ret.val)
    /\ ~ret.f1 /\ ~ret.f2
    /\ BothConnected

\* B holds every public channel of A under its id, with the name and the
\* timestamp A stores and with A as the owner
Replicated ==
    \A c \in channels["A"] :
        c.peer = "A" /\ ~c.is_private /\ ~c.admin_only =>
            \E d \in channels["B"] :
                /\ d.id = c.id /\ d.name = c.name /\ d.timestamp = c.timestamp
                /\ d.peer = "A"

\* B emits channel_create once for each channel that enters its store, with
\* the fields of the stored channel, and for nothing else; B loses no channel
AnnouncedOnEntry ==
    /\ \A d \in channels'["B"] :
          d.id \notin Ids(channels["B"]) =>
              /\ Cardinality({j \in DOMAIN ev'["B"] :
                                 /\ ev'["B"][j].type = "channel_create"
                                 /\ ev'["B"][j].id = d.id}) = 1
              /\ \E j \in DOMAIN ev'["B"] : ev'["B"][j] = ChannelEvent("channel_create", d)
    /\ \A j \in DOMAIN ev'["B"] :
          ev'["B"][j].type = "channel_create" =>
              /\ ev'["B"][j].id \notin Ids(channels["B"])
              /\ ev'["B"][j].id \in Ids(channels'["B"])
    /\ Ids(channels["B"]) \subseteq Ids(channels'["B"])

\* C2: while A and B are connected, the public channel a successful
\* create_channel(name, false, false) stores on A eventually enters the store
\* of B with the same id, name and timestamp and the owner A, and B emits
\* exactly one channel_create event, carrying these fields, as it enters
ChannelReplicated ==
    /\ (Created /\ ~Replicated) ~> Replicated
    /\ [][Created' => ~Replicated']_vars
    /\ [][AnnouncedOnEntry]_vars

\* B has announced a channel A created after the clock moved on
ChannelAnnounced ==
    /\ Replicated
    /\ \E j \in Emitted("B", "channel_create") :
          ev["B"][j].ts > 0 /\ ev["B"][j].peer = "A"

\* A has just stored a message of one of its logged-in users in one of its
\* public channels, which B holds too
Sent ==
    /\ ret.op = "send_message" /\ ret.srv = "A"
    /\ IsId(ret.val)
    /\ BothConnected
    /\ \E x \in users["A"] : x.id = ret.id /\ x.peer = "A"
    /\ ret.id \in online_users["A"]
    /\ \E ch \in channels["A"] :
          ch.id = ret.chan /\ ch.peer = "A" /\ ~ch.is_private /\ ~ch.admin_only
    /\ ret.chan \in Ids(channels["B"])

\* B emits a message event with the content and the author of a message A stores
Heard ==
    \E j \in Emitted("B", "message"), m \in messages["A"] :
        ev["B"][j].content = m.content /\ ev["B"][j].user = m.user

\* C3: while A and B are connected, a send_message(u, c, content) that returns
\* an id on A, for a user u of A that is logged in on A and a public channel c
\* of A that B holds, is followed by a message event on B with the same
\* content and the author u
MessageReplicated == Sent ~> Heard

\* C4: a channel A created private or admin_only is not in the channels of B
\* and B emits no channel_create event for it; no message of B lies in such a
\* channel and B emits no message event for one
FlaggedChannelsStayHome ==
    \A c \in channels["A"] :
        c.peer = "A" /\ (c.is_private \/ c.admin_only) =>
            /\ c.id \notin Ids(channels["B"])
            /\ \A j \in Emitted("B", "channel_create") : ev["B"][j].id # c.id
            /\ \A m \in messages["B"] : m.channel # c.id
            /\ \A j \in Emitted("B", "message") : ev["B"][j].chan # c.id

\* A holds a message in an admin_only channel of its own, the servers are
\* connected, B has been told of the author and every frame has been read
FlaggedChannelInUse ==
    /\ \E c \in channels["A"], m \in messages["A"] :
          /\ c.peer = "A" /\ c.admin_only /\ ~c.is_private
          /\ m.channel = c.id
          /\ m.user \in Ids(users["B"])
    /\ BothConnected
    /\ \A i \in DOMAIN conns : conns[i].toSrv = <<>> /\ conns[i].toCli = <<>>

\* the messages of channel c in the store of s with a timestamp before t
Before(s, c, t) == {m \in messages[s] : m.channel = c /\ m.timestamp < t}

\* C11: get_messages(c, t, n) of an existing channel c returns at most n
\* messages of the store, each one once, all of channel c with a timestamp
\* below t, in non-decreasing order of timestamp; when more than n qualify
\* it returns n, and no message left out is earlier than one returned
MessagesPage ==
    ret.op = "get_messages" /\ ret.chan \in Ids(channels[ret.srv]) =>
        LET list == ret.val.list
            t == ret.id[1]
            n == ret.id[2]
            returned == {list[j] : j \in DOMAIN list}
            qualify == Before(ret.srv, ret.chan, t)
        IN  /\ ~ret.val.null
            /\ Len(list) <= n
            /\ returned \subseteq qualify
            /\ Cardinality(returned) = Len(list)
            /\ \A i, j \in DOMAIN list : i < j => list[i].timestamp <= list[j].timestamp
            /\ Cardinality(qualify) > n =>
                  /\ Len(list) = n
                  /\ \A m \in qualify \ returned, r \in returned : r.timestamp <= m.timestamp

\* a page of one message was cut from several that qualify, stored out of
\* the order of their timestamps, while the other channel holds a message
PageCut ==
    /\ ret.op = "get_messages"
    /\ ret.chan \in Ids(channels[ret.srv])
    /\ ret.id[2] = 1
    /\ Len(ret.val.list) = 1
    /\ \E m \in Before(ret.srv, ret.chan, ret.id[1]) :
          m.id[2] < ret.val.list[1].id[2] /\ m.timestamp > ret.val.list[1].timestamp
    /\ \E m \in messages[ret.srv] : m.channel # ret.chan

\* the online users of server s that channel c lets in
Members(s, c) ==
    {u \in users[s] :
        /\ u.id \in online_users[s]
        /\ (u.peer = s \/ ~c.is_private)
        /\ (u.admin \/ ~c.admin_only)}

\* C12: for an existing channel c, get_online_users(c) returns exactly the
\* online users that are local or find c not private, and that are
\* administrators or find c not admin_only; get_online_local_users(c) and
\* get_online_remote_users(c) return its local and its remote members
OnlineUsersPartition ==
    /\ ret.op \in {"get_online_users", "get_online_local_users", "get_online_remote_users"}
    /\ ret.chan \in Ids(channels[ret.srv])
    => LET s == ret.srv
           c == CHOOSE ch \in channels[s] : ch.id = ret.chan
       IN  /\ ~ret.val.threw
           /\ ret.op = "get_online_users" => ret.val.list = Members(s, c)
           /\ ret.op = "get_online_local_users" =>
                 ret.val.list = {u \in Members(s, c) : u.peer = s}
           /\ ret.op = "get_online_remote_users" =>
                 ret.val.list = {u \in Members(s, c) : u.peer # s}

\* the ids in the presence object of s that have no user record
Stale(s) == online_users[s] \ Ids(users[s])

\* delete_message(id) of an id the store does not hold completes
UnknownMessageRefused ==
    ret'.op = "delete_message" /\ ret'.id \notin Ids(messages[ret'.srv]) =>
        ret'.val # Threw

\* send_message of an online id whose user record is gone returns null
StaleAuthorRefused ==
    ret'.op = "send_message" /\ ret'.id \in Stale(ret'.srv) =>
        ret'.val = Null /\ messages' = messages

\* the get_online_* queries complete while such an id is online
StaleUsersSkipped ==
    /\ ret'.op \in {"get_online_users", "get_online_local_users", "get_online_remote_users"}
    /\ Stale(ret'.srv) # {}
    => ~ret'.val.threw

\* C17: no call throws on a validation failure: delete_message of an id that
\* is not in the store, send_message of an online id whose user record was
\* deleted, and the get_online_* queries while such an id is online complete
\* with a null or empty result
ValidationNeverThrows ==
    [][UnknownMessageRefused /\ StaleAuthorRefused /\ StaleUsersSkipped]_vars

----------------------------------------------------------------------------
(* Properties of pairing *)

\* no server holds two outgoing pair requests to one address and port
OutgoingOnce ==
    \A s \in Servers : \A j, k \in DOMAIN outgoing[s] :
        outgoing[s][j].ip = outgoing[s][k].ip /\ outgoing[s][j].port = outgoing[s][k].port
            => j = k

\* send_pair_request to the server itself, or to a target of a pending
\* outgoing request, returns false and opens no connection
PairRequestRefused ==
    ret'.op = "send_pair_request" =>
        LET s == ret'.srv
            ip == ToV4(ret'.id[1])
            port == ret'.id[2]
        IN  (ip = LOOPBACK /\ port = PortOf[s]) \/ Pending(outgoing[s], ip, port) =>
                ret'.val = False /\ conns' = conns

\* C13: send_pair_request(address, port) returns false and opens no
\* connection when the target is the server itself or an outgoing request to
\* it is pending, and however the calls and the open callbacks interleave no
\* server ever holds two outgoing pending entries for one address and port
PairRequestOnce == [][PairRequestRefused]_vars /\ []OutgoingOnce

\* C14: respond_to_pair_request(peer_id, accepted) returns true exactly when
\* an incoming pair request of peer_id is pending; a call that returns false
\* opens no connection and creates no Peer record, and after a call that
\* returns true the incoming entry of peer_id is gone
RespondOnce ==
    [][ret'.op = "respond_to_pair_request" =>
          LET s == ret'.srv
              peer_id == ret'.name
          IN  /\ ret'.val = True <=> peer_id \in Ids(incoming[s])
              /\ ret'.val # True =>
                    ret'.val = False /\ conns' = conns /\ peers' = peers
              /\ ret'.val = True => peer_id \notin Ids(incoming'[s])]_vars

\* a server has just answered a pair request with accepted = true
Accepting ==
    ret.op = "respond_to_pair_request" /\ ret.f1 /\ ret.val = True

\* no server holds a Peer record or a peer connection, and none emits peer_online
Strangers ==
    \A s \in Servers :
        /\ peers[s] = {}
        /\ \A t \in Servers : peer_connections[s][t] = 0
        /\ Emitted(s, "peer_online") = {}

\* B has just answered the pair request of A, for the first time and with
\* accepted = false, while A holds the outgoing entry of the request
Refusing ==
    /\ Rejected
    /\ Pending(outgoing["A"], LOOPBACK, PortOf["B"])
    /\ \A i \in 1..(Len(conns) - 1) : ~(conns[i].kind = "respond" /\ conns[i].cli = "B")

\* A emits pair_reject for B and holds no outgoing entry for B
Refused ==
    /\ \E j \in Emitted("A", "pair_reject") : ev["A"][j].peer = "B"
    /\ ~Pending(outgoing["A"], LOOPBACK, PortOf["B"])

\* C15: when B answers the pair request of A with accepted = false (and no
\* request is ever answered with true), neither server ever holds a Peer
\* record of the other, puts the other in peer_connections or emits
\* peer_online, and A eventually emits pair_reject and drops the outgoing
\* entry of the request
RejectionKeepsStrangers ==
    [](~Accepting) => ([]Strangers /\ (Refusing ~> Refused))

----------------------------------------------------------------------------
(* Properties of stop() *)

\* server s handles the frames of its peers on connection i
Handling(s, i) ==
    \/ conns[i].srv = s /\ conns[i].srvWait = "settled" /\ conns[i].srvPeer # ""
    \/ conns[i].cli = s /\ conns[i].cliBound = "repl"

\* the connections a stopped server handled frames on are closed
StoppedClosed ==
    \A s \in Servers, i \in DOMAIN conns :
        ~started[s] /\ Handling(s, i) => conns[i].cliClosed \/ conns[i].srvClosed

\* a stopped server accepts no connection, and its store, its presence
\* object and its events stay as they are
StoppedDeaf ==
    \A s \in Servers :
        ~started[s] /\ ~started'[s] =>
            /\ \A i \in DOMAIN conns : conns[i].srv = s => conns'[i].open = conns[i].open
            /\ users'[s] = users[s] /\ channels'[s] = channels[s]
            /\ messages'[s] = messages[s] /\ online_users'[s] = online_users[s]
            /\ ev'[s] = <<>>

\* C16: once stop() has returned the server accepts no new connection, every
\* connection on which it handled the frames of a peer is closed, and no frame
\* of a peer changes its store or its presence object or raises an event
StopEndsFederation == []StoppedClosed /\ [][StoppedDeaf]_vars

----------------------------------------------------------------------------
(* Properties of the frames of pairing *)

\* the listening end of connection i takes the frame of the given type as
\* the first frame of the connection
Arrives(i, type) ==
    /\ i \in DOMAIN conns
    /\ conns[i].srvWait = "pending"
    /\ conns[i].toSrv # <<>>
    /\ Head(conns[i].toSrv).type = type
    /\ conns'[i].toSrv # conns[i].toSrv

\* C18: a pair_request of a sender that has a Peer record stores no incoming
\* entry and raises no pair_request event; a pair_request of a sender without
\* one stores an incoming entry under the id of the sender, raises exactly
\* one pair_request event and creates no Peer record and no peer connection
PairRequestReceived ==
    [][\A i \in 1..MaxConns :
          Arrives(i, "pair_request") =>
              LET s == conns[i].srv
                  sender == Head(conns[i].toSrv).sender
                  raised == {j \in DOMAIN ev'[s] : ev'[s][j].type = "pair_request"}
              IN  IF sender \in Ids(peers[s])
                  THEN incoming' = incoming /\ raised = {}
                  ELSE /\ sender \in Ids(incoming'[s])
                       /\ Cardinality(raised) = 1
                       /\ \A j \in raised : ev'[s][j].peer = sender
                       /\ peers' = peers
                       /\ peer_connections' = peer_connections]_vars

\* C19: a pair_accept or pair_reject whose address and port match no outgoing
\* pending entry changes nothing: no Peer record is created, no event is
\* raised, the outgoing and incoming pending entries stay as they are and the
\* connection is not put in peer_connections
UnmatchedAnswerIgnored ==
    [][\A i \in 1..MaxConns :
          /\ Arrives(i, "pair_accept") \/ Arrives(i, "pair_reject")
          /\ ~Pending(outgoing[conns[i].srv], LOOPBACK, Head(conns[i].toSrv).port)
          => /\ peers' = peers
             /\ ev' = Quiet
             /\ outgoing' = outgoing
             /\ incoming' = incoming
             /\ peer_connections' = peer_connections]_vars

\* A has read a pair_accept of B that matched no pending request: it closed
\* the connection and holds no Peer record of B
UnmatchedAccept ==
    \E i \in DOMAIN conns :
        /\ conns[i].kind = "respond" /\ conns[i].acc
        /\ conns[i].cli = "B" /\ conns[i].srv = "A"
        /\ conns[i].srvWait = "settled" /\ conns[i].srvClosed
        /\ "B" \notin Ids(peers["A"])
        /\ "A" \in Ids(peers["B"])

\* C20: a pair_accept or pair_reject that matches an outgoing pending entry
\* removes the entries with its address and port and no other: an entry that
\* shares only the address or only the port is still pending afterwards
MatchedAnswerRemovesOne ==
    [][\A i \in 1..MaxConns :
          /\ Arrives(i, "pair_accept") \/ Arrives(i, "pair_reject")
          /\ Pending(outgoing[conns[i].srv], LOOPBACK, Head(conns[i].toSrv).port)
          => LET s == conns[i].srv
                 port == Head(conns[i].toSrv).port
             IN  outgoing'[s] =
                     SelectSeq(outgoing[s], LAMBDA r : ~(r.ip = LOOPBACK /\ r.port = port))]_vars

\* C21: a pair request to a target that rejects it does not stay pending: once
\* A's request is pending at a target that holds the Peer record of A (and so
\* answers pair_reject at once), A eventually holds no outgoing entry for it
RejectedRequestDropped ==
    (/\ Pending(outgoing["A"], LOOPBACK, PortOf["B"])
     /\ "A" \in Ids(peers["B"]))
        ~> ~Pending(outgoing["A"], LOOPBACK, PortOf["B"])

----------------------------------------------------------------------------
(* Properties of the admission of a connection *)

PairingTypes == {"handshake", "pair_request", "pair_accept", "pair_reject"}

\* connection i is not bound to the replication handler of its listening
\* server and is no entry of the peer-connection map
Unadmitted(i) ==
    /\ conns[i].srvPeer = ""
    /\ \A t \in Servers : peer_connections[conns[i].srv][t] # i

FramesOf(out) == [j \in DOMAIN out |-> out[j].frame]

\* C23: the listening server that admits a connection, on a handshake or on
\* a pair_accept that matches a pending request, writes handshake_ack to it
\* and then its catch-up, once: the channels it shows, its users and the
\* logins of its presence set
AdmissionCatchesUp ==
    [][\A i \in 1..MaxConns :
          /\ \/ Arrives(i, "handshake")
             \/ /\ Arrives(i, "pair_accept")
                /\ Pending(outgoing[conns[i].srv], LOOPBACK, Head(conns[i].toSrv).port)
          /\ conns'[i].srvWait = "settled"
          => LET s == conns[i].srv IN
             conns'[i].toCli =
                 <<BareFrame("handshake_ack")>> \o FramesOf(CatchUp(s, Store(s)))]_vars

----------------------------------------------------------------------------
(* Properties of the catch-up and of replication *)

\* the two servers are connected and every frame has been read
Settled ==
    /\ BothConnected
    /\ \A i \in DOMAIN conns : conns[i].toSrv = <<>> /\ conns[i].toCli = <<>>

\* C24: once A and B are connected and every frame in flight has been read,
\* B holds every user of A and every channel of A that is neither admin-only
\* nor private, and every user of A that is online on A is online on B
CaughtUp ==
    Settled =>
        /\ \A u \in users["A"] : u.peer = "A" => u.id \in Ids(users["B"])
        /\ \A c \in channels["A"] :
              c.peer = "A" /\ ~c.admin_only /\ ~c.is_private => c.id \in Ids(channels["B"])
        /\ \A u \in users["A"] :
              u.peer = "A" /\ u.id \in online_users["A"] => u.id \in online_users["B"]

ReplicationTypes ==
    {"login", "logout", "create_user", "delete_user", "channel_create", "channel_delete",
     "send_message", "delete_message"}

\* what server s has written to connection j and the other end has not read
SentBy(s, j) ==
    CASE conns[j].cli = s -> conns[j].toSrv
      [] conns[j].srv = s -> conns[j].toCli
      [] OTHER -> <<>>

\* the replication handler of server s takes frames of the replication
\* protocol from connection i
Applies(s, i) ==
    /\ i \in DOMAIN conns
    /\ \/ /\ conns[i].srv = s /\ conns[i].srvWait = "settled" /\ conns[i].srvPeer # ""
          /\ ~conns[i].srvClosed
          /\ conns[i].toSrv # <<>> /\ conns'[i].toSrv # conns[i].toSrv
          /\ \A j \in 1..(Len(conns[i].toSrv) - Len(conns'[i].toSrv)) :
                conns[i].toSrv[j].type \in ReplicationTypes
       \/ /\ conns[i].cli = s /\ conns[i].cliBound = "repl" /\ ~conns[i].cliClosed
          /\ conns[i].toCli # <<>> /\ conns'[i].toCli # conns[i].toCli
          /\ \A j \in 1..(Len(conns[i].toCli) - Len(conns'[i].toCli)) :
                conns[i].toCli[j].type \in ReplicationTypes

\* C25: a server that applies replication frames of a peer writes no frame to
\* any connection, whoever owns the user, channel or message they name
RemoteApplicationSilent ==
    [][\A s \in Servers, i \in 1..MaxConns :
          Applies(s, i) => \A j \in DOMAIN conns : SentBy(s, j)' = SentBy(s, j)]_vars

\* C26: when logout_user logs out a user that A owns and that is online, A
\* writes a logout frame for it to the connection of every connected peer
LogoutAnnounced ==
    [][/\ ret'.op = "logout_user"
       /\ ret'.srv = "A"
       /\ ret'.val = True
       /\ \E u \in users["A"] : u.id = ret'.id /\ u.peer = "A"
       => \A t \in Servers :
             peer_connections["A"][t] # 0 =>
                 LET sent == SentBy("A", peer_connections["A"][t])' IN
                 /\ sent # <<>>
                 /\ sent[Len(sent)] = IdFrame("logout", ret'.id)]_vars

\* the frames that wait on some connection
InFlight ==
    UNION {{conns[i].toSrv[j] : j \in DOMAIN conns[i].toSrv}
               \cup {conns[i].toCli[j] : j \in DOMAIN conns[i].toCli} : i \in DOMAIN conns}

\* C27: every send_message frame carries the id and the timestamp of the
\* message its sender stored, and a message stored by the receiving peer has
\* the id and the timestamp of a message stored by the sender
MessageEnvelopeComplete ==
    /\ \A f \in InFlight :
          f.type = "send_message" =>
              \E m \in messages["A"] : m.id = f.id /\ m.timestamp = f.ts
    /\ \A m \in messages["B"] :
          \E sent \in messages["A"] : sent.id = m.id /\ sent.timestamp = m.timestamp

\* C28: when delete_message removes a message of a channel that A owns and
\* that is neither private nor admin-only, A writes to the connection of every
\* connected peer a frame of the type the handler of the peer takes for the
\* deletion of a message
MessageDeletionAnnounced ==
    [][/\ ret'.op = "delete_message"
       /\ ret'.srv = "A"
       /\ \E m \in messages["A"] \ messages'["A"] :
             /\ m.id = ret'.id
             /\ \E c \in channels["A"] :
                   c.id = m.channel /\ c.peer = "A" /\ ~c.is_private /\ ~c.admin_only
       => \A t \in Servers :
             peer_connections["A"][t] # 0 =>
                 LET sent == SentBy("A", peer_connections["A"][t])' IN
                 /\ sent # <<>>
                 /\ sent[Len(sent)] = IdFrame("delete_message", ret'.id)]_vars

\* the peer whose frames server s reads from connection i
PeerOf(s, i) == IF conns[i].srv = s THEN conns[i].srvPeer ELSE conns[i].cliPeer

\* C29: a server that reads delete_user and channel_delete frames of peer P
\* removes no user and no channel but those P owns, and raises delete_user
\* and channel_delete for those only; a local delete_user or delete_channel
\* for an id that is no user or channel of this server returns false and
\* leaves the store as it is
DeletionByOwnerOnly ==
    [][/\ \A s \in Servers, i \in 1..MaxConns :
             Applies(s, i) =>
                 /\ \A u \in users[s] \ users'[s] : u.peer = PeerOf(s, i)
                 /\ \A c \in channels[s] \ channels'[s] : c.peer = PeerOf(s, i)
                 /\ \A j \in DOMAIN ev'[s] :
                       /\ ev'[s][j].type = "delete_user" =>
                             \E u \in users[s] : u.id = ev'[s][j].id /\ u.peer = PeerOf(s, i)
                       /\ ev'[s][j].type = "channel_delete" =>
                             \E c \in channels[s] : c.id = ev'[s][j].id /\ c.peer = PeerOf(s, i)
       /\ \A s \in Servers :
             /\ (/\ ret'.op = "delete_user" /\ ret'.srv = s
                 /\ ~(\E u \in users[s] : u.id = ret'.id /\ u.peer = s))
                => ret'.val = False /\ users' = users /\ channels' = channels /\ ev' = Quiet
             /\ (/\ ret'.op = "delete_channel" /\ ret'.srv = s
                 /\ ~(\E c \in channels[s] : c.id = ret'.chan /\ c.peer = s))
                => ret'.val = False /\ users' = users /\ channels' = channels /\ ev' = Quiet]_vars

\* A has refused to delete the user of B, which it still holds, while the
\* delete_user frame that B wrote for the user of A waits at A
DeletionRefused ==
    /\ ret.op = "delete_user" /\ ret.srv = "A" /\ ret.val = False
    /\ ret.id = RemoteUser.id
    /\ RemoteUser \in users["A"]
    /\ LocalUser \in users["A"]
    /\ conns[1].toSrv = <<IdFrame("delete_user", LocalUser.id)>>

\* C30: every id of a presence set is the id of a user the server stores; a
\* user that is deleted while logged in leaves no entry behind
PresenceOfStoredUsers ==
    \A s \in Servers : online_users[s] \subseteq Ids(users[s])

----------------------------------------------------------------------------
(* Properties of the records of the store *)

UsernamesUnique ==
    \A s \in Servers : \A u, v \in users[s] : u.username = v.username => u = v

\* C33: of two calls of create_user, or of create_channel, made with one name
\* at the same time, at most one returns an id, and the store then holds at
\* most one user, or channel, of that name
ConcurrentCreateOnce ==
    /\ ret.op = "create_user, create_user" =>
          /\ Null \in {ret.val[1], ret.val[2]}
          /\ Cardinality({u \in users[ret.srv] : u.username = ret.name}) <= 1
    /\ ret.op = "create_channel, create_channel" =>
          /\ Null \in {ret.val[1], ret.val[2]}
          /\ Cardinality({c \in channels[ret.srv] : c.name = ret.name}) <= 1

----------------------------------------------------------------------------
(* Properties of the connections of the peers *)

\* the socket the running server A holds for peer B has been closed
PeerSocketClosed ==
    /\ started["A"]
    /\ peer_connections["A"]["B"] # 0
    /\ \/ conns[peer_connections["A"]["B"]].cliClosed
       \/ conns[peer_connections["A"]["B"]].srvClosed

\* C34: when the socket of a connected peer closes, the entry of the peer
\* leaves the map of peer connections (until the peer connects again)
ClosedPeerForgotten == PeerSocketClosed ~> ~PeerSocketClosed

\* the listening server of the admitted connection i reads frames from it
ReadsAdmitted(i) ==
    /\ i \in DOMAIN conns
    /\ conns[i].srvWait = "settled" /\ conns[i].srvPeer # "" /\ ~conns[i].srvClosed
    /\ conns[i].toSrv # <<>> /\ conns'[i].toSrv # conns[i].toSrv

\* C36: a pair_request, pair_accept, pair_reject or handshake frame read on
\* an admitted connection changes neither the pending lists nor the Peer
\* records, raises no event of pairing and does not close the connection
AdmittedIgnoresPairing ==
    [][\A i \in 1..MaxConns :
          ReadsAdmitted(i) /\ (\A j \in DOMAIN conns[i].toSrv :
                                   conns[i].toSrv[j].type \in PairingTypes)
          => /\ <<outgoing, incoming, peers>>' = <<outgoing, incoming, peers>>
             /\ \A j \in DOMAIN ev'[conns[i].srv] :
                   ev'[conns[i].srv][j].type \notin PairingTypes
             /\ ~conns'[i].srvClosed]_vars

\* the server that connected to a peer of its database in start() reads the
\* handshake_ack of the peer on connection i
Acknowledged(i) ==
    /\ i \in DOMAIN conns
    /\ conns[i].kind = "connect" /\ conns[i].cliBound = "once" /\ ~conns[i].cliClosed
    /\ conns[i].toCli # <<>> /\ Head(conns[i].toCli).type = "handshake_ack"
    /\ conns'[i].toCli # conns[i].toCli

\* C37: the server that connected to a peer in start() and reads the peer's
\* handshake_ack has the connection in its peer-connection map under the id
\* of the peer, has bound the replication handler to it and has written its
\* catch-up on it
StartConnects ==
    [][\A i \in 1..MaxConns :
          Acknowledged(i) =>
              LET s == conns[i].cli IN
              /\ peer_connections'[s][conns[i].peer] = i
              /\ conns'[i].cliBound = "repl"
              /\ conns'[i].cliPeer = conns[i].peer
              /\ \A j \in DOMAIN CatchUp(s, Store(s)) :
                    \E n \in DOMAIN conns'[i].toSrv :
                        conns'[i].toSrv[n] = CatchUp(s, Store(s))[j].frame]_vars

\* C38: a connection is bound to the replication handler of the listening
\* server only under the id of a peer the server has a Peer record of: a
\* connection whose handshake names another id gets no handshake_ack, and no
\* user or channel of such an id enters the store
UnpairedNeverAdmitted ==
    /\ \A i \in DOMAIN conns :
          LET s == conns[i].srv IN
          /\ conns[i].srvPeer # "" => conns[i].srvPeer \in Ids(peers[s])
          /\ conns[i].kind = "stranger" /\ peers[s] = {} =>
                \A j \in DOMAIN conns[i].toCli : conns[i].toCli[j].type # "handshake_ack"
    /\ \A s \in Servers :
          /\ \A u \in users[s] : u.peer \in {s} \cup Ids(peers[s])
          /\ \A c \in channels[s] : c.peer \in {s} \cup Ids(peers[s])

\* C40: no frame that carries the content of a message posted into an
\* admin-only or private channel is written to a connection of a peer
RestrictedContentStaysLocal ==
    \A f \in InFlight :
        f.type = "send_message" =>
            \A s \in Servers : \A c \in channels[s] :
                c.id = f.chan => ~c.admin_only /\ ~c.is_private

----------------------------------------------------------------------------
(* Properties of a mesh of three servers *)

\* A stores a message of its user in the channel of B
PostedOnA ==
    \E m \in messages["A"] : m.user = LocalUser.id /\ m.channel = RemoteChannel.id

\* C stores a message of the user of A in the channel of B
StoredOnC ==
    \E m \in messages["C"] : m.user = LocalUser.id /\ m.channel = RemoteChannel.id

\* C39: in a mesh of A, B and C, a message that a logged-in user of A posts
\* into the public channel of B, which A and C hold, is eventually stored by
\* every server that holds the channel, C included
MeshDelivers == PostedOnA ~> StoredOnC

\* the socket A holds for B has closed, the one it holds for C has not
PeerDown ==
    /\ peer_connections["A"]["B"] # 0 /\ peer_connections["A"]["C"] # 0
    /\ LET b == conns[peer_connections["A"]["B"]]
           c == conns[peer_connections["A"]["C"]]
       IN  /\ b.cliClosed \/ b.srvClosed
           /\ ~c.cliClosed /\ ~c.srvClosed

\* frame f is the last frame A wrote to the socket it holds for C
ToldC(f) ==
    LET q == SentBy("A", peer_connections["A"]["C"]) IN q # <<>> /\ q[Len(q)] = f

\* the step leaves f as the last frame A wrote to the socket it holds for C
TellsC(f) ==
    LET q == SentBy("A", peer_connections["A"]["C"])' IN q # <<>> /\ q[Len(q)] = f

====
